---- MODULE Spec2Model ----
(***************************************************************************)
(* One worker process of the secure messaging server: the long-poll       *)
(* registry, the sliced broadcast, the delivery tracker, the catch-up      *)
(* queue, the write-behind batcher and the periodic sweep of              *)
(* services/MessageService.js, driven by the poll and send handlers of    *)
(* controllers/MessageController.js.                                      *)
(*                                                                         *)
(* Node runs one callback to completion before the next one starts, so    *)
(* every action below is one callback: a request handler's synchronous    *)
(* tail, one setImmediate callback, one timer callback, one resolution of *)
(* an awaited store write.  Timer callbacks run at or after their due     *)
(* time; nothing bounds how late.                                         *)
(***************************************************************************)
EXTENDS Integers, Sequences, FiniteSets, Bags, TLC

VARIABLES
  now,                    \* Date.now(), in ms
  connectedClients,       \* Map clientId -> {res, username, timestamp}, in insertion order
  activeConnections,      \* this.activeConnections
  messageQueue,           \* this.messageQueue (message objects)
  queuedFlag,             \* ids of the message objects whose _queued field is set
  messageDeliveryTracker, \* Map messageId -> {deliveredTo, timestamp}
  messageBatch,           \* this.messageBatch
  writes,                 \* bulk writes awaited by the batch timer callback
  store,                  \* ids of the documents in the messages collection
  dropLog,                \* the counts logged by "Dropped N messages due to database error"
  flushLog,               \* how the most recent bulk write ended: "none", "saved" or "error"
  immediates,             \* the setImmediate queue
  handles,                \* per registered poll: its response handle and its 5 s timer
  nextMsgId,              \* ids handed out by createMessageId so far
  accepted,               \* ids of the messages whose send was answered 201
  handed,                 \* bag of <<messageId, username>>: copies handed to a recipient
  evicted,                \* ids whose delivery record the sweep has deleted
  pollLog,                \* what the most recent poll request was answered with
  crashes,                \* how often the worker process has died and been replaced
  MAX_CLIENTS_PER_WORKER, \* this.MAX_CLIENTS_PER_WORKER, set by the constructor
  peer,                   \* the MessageService of a second worker process
  coordinator,            \* the master process: workers, listeners, workerConnections
  tokens,                 \* the auth boundary: issued tokens and the blacklist
  documents,              \* the stored message documents markMessageAsRead works on
  sendLog,                \* what the most recent send request was answered with
  worker                  \* index.js, worker branch: isShuttingDown and the requests in flight

vars == <<now, connectedClients, activeConnections, messageQueue, queuedFlag,
          messageDeliveryTracker, messageBatch, writes, store, dropLog, flushLog, immediates,
          handles, nextMsgId, accepted, handed, evicted, pollLog, crashes, MAX_CLIENTS_PER_WORKER,
                 peer, coordinator, tokens, documents, sendLog, worker>>

-----------------------------------------------------------------------------
(* Bounds of the model *)

Users == {"alice", "bob"}

\* poll requests that get as far as registering a session
MaxPolls == 3
\* send requests handled
MaxMsgs == 1
\* steps of the clock
MaxTicks == 1
\* worker crashes
MaxCrashes == 1
\* os.cpus().length, chosen so that MAX_CLIENTS_PER_WORKER is 3
NumCpus == 5000
\* stands for the slice size 1000 of broadcastMessage (batchSize)
batchSize == 2
\* stands for the 1000 queue entries hasMessageForUser looks at
ScanLimit == 2
\* how close to the admission threshold the workers of SpecAdmission start
HeldWindow == 2
\* sessions SpecAdmission registers beyond those the threshold admits at once
MaxRepolls == 1
\* the most recent sessions whose clients may leave in SpecAdmission
MaxLeavers == 1
\* sends SpecBatch handles beyond the retry threshold of 20
MaxBatchExtra == 2
\* setImmediate callbacks waiting at once in SpecBatch and SpecQueue
MaxPendingImmediates == 1
\* bulk writes in flight at once in SpecBatch
MaxWrites == 2
\* sends SpecQueue handles on top of the backlog it starts with
MaxBurst == 2
\* messages sent in SpecCluster, over both workers
MaxClusterMsgs == 2
\* worker processes the master forks at startup
NumWorkers == 3
\* count messages on their way to the master at once
MaxInbox == 2
\* the latest second the auth clock reaches in SpecAuth
MaxAuthClock == 2

(* Program constants *)

MAX_QUEUE_SIZE == 5000
TargetConnections == 15000
BatchRetryLimit == 20
PollTimeout == 5000
ClientMaxAge == 10000
TrackerTtl == 600000
SweepInterval == 5000

-----------------------------------------------------------------------------
(* Helpers *)

Min(a, b) == IF a <= b THEN a ELSE b

\* Math.ceil(a / b) for b > 0
CeilDiv(a, b) == -((-a) \div b)

Range(s) == {s[i] : i \in DOMAIN s}

Ids(s) == {s[i].id : i \in DOMAIN s}

\* Array.prototype.splice(0, n): the array without its first n elements
DropFirst(s, n) == SubSeq(s, n + 1, Len(s))

\* Map.prototype.delete on the insertion-ordered registry
MapDelete(cc, clientId) == SelectSeq(cc, LAMBDA e : e.clientId # clientId)

MapHas(cc, clientId) == \E i \in DOMAIN cc : cc[i].clientId = clientId

\* Math.ceil(15000 / os.cpus().length)
ClientsPerWorker(cpus) == CeilDiv(TargetConnections, cpus)

-----------------------------------------------------------------------------
(* MessageService: capacity *)

\* load > 0.9 in place of load >= 0.9
isAtCapacity_Strict == 10 * activeConnections > 9 * MAX_CLIENTS_PER_WORKER

\* load >= 0.9 with load = activeConnections / capacity; on these integers the
\* double division and comparison agree with the exact ones
isAtCapacity == 10 * activeConnections >= 9 * MAX_CLIENTS_PER_WORKER

\* Math.floor in place of Math.ceil
retryAfterSeconds_Floor(active, capacity) == Min((5 * active) \div capacity, 10)

\* pollMessages: Math.min(Math.ceil(load * 5), 10) with load = active / capacity
retryAfterSeconds(active, capacity) == Min(CeilDiv(5 * active, capacity), 10)

RetryAfter == retryAfterSeconds(activeConnections, MAX_CLIENTS_PER_WORKER)

-----------------------------------------------------------------------------
(* MessageService: delivery tracker and catch-up queue *)

\* the deliveredTo test left out
Delivered_NoCheck(tracker, messageId, username) == FALSE

Delivered(tracker, messageId, username) ==
  messageId \in DOMAIN tracker /\ username \in tracker[messageId].deliveredTo

\* the indexes of the queue hasMessageForUser looks at: i = 0 .. min(length, 1000) - 1
ScanIndexes(queue) == 1 .. Min(Len(queue), ScanLimit)

\* hasMessageForUser: the index of the first scanned entry addressed to username
\* and not yet delivered to it, 0 for null
hasMessageForUser(queue, tracker, username) ==
  LET hits == {i \in ScanIndexes(queue) :
                  /\ username \in queue[i].recipients
                  /\ ~Delivered(tracker, queue[i].id, username)}
  IN IF hits = {} THEN 0 ELSE CHOOSE i \in hits : \A j \in hits : i <= j

\* the existing record is touched but the recipient is not added
markMessageDelivered_NoAdd(tracker, messageId, username, t) ==
  IF messageId \notin DOMAIN tracker
    THEN (messageId :> [deliveredTo |-> {username}, timestamp |-> t]) @@ tracker
    ELSE [tracker EXCEPT ![messageId].timestamp = t]

markMessageDelivered(tracker, messageId, username, t) ==
  IF messageId \notin DOMAIN tracker
    THEN (messageId :> [deliveredTo |-> {username}, timestamp |-> t]) @@ tracker
    ELSE [tracker EXCEPT ![messageId] =
            [deliveredTo |-> @.deliveredTo \cup {username}, timestamp |-> t]]

\* length >= 0.9 * MAX_QUEUE_SIZE in place of length > 0.9 * MAX_QUEUE_SIZE
TrimCount_Inclusive(len) ==
  IF 10 * len >= 9 * MAX_QUEUE_SIZE
    THEN len - ((7 * MAX_QUEUE_SIZE) \div 10)
    ELSE 0

\* one entry too few is spliced off
TrimCount_OffByOne(len) ==
  IF 10 * len > 9 * MAX_QUEUE_SIZE
    THEN len - ((7 * MAX_QUEUE_SIZE) \div 10) - 1
    ELSE 0

\* the trim cuts back to MAX_QUEUE_SIZE only
TrimCount_ToMax(len) ==
  IF len > MAX_QUEUE_SIZE THEN len - MAX_QUEUE_SIZE ELSE 0

\* the sweep's trim: splice(0, removed) once length > MAX_QUEUE_SIZE * 0.9
TrimCount(len) ==
  IF 10 * len > 9 * MAX_QUEUE_SIZE
    THEN len - ((7 * MAX_QUEUE_SIZE) \div 10)
    ELSE 0

TrimQueue(queue) == DropFirst(queue, TrimCount(Len(queue)))

\* every record counts as expired
TrackerExpired_Always(rec, t) == TRUE

\* the sweep's TTL test on a delivery record: data.timestamp < now - 600000
TrackerExpired(rec, t) == rec.timestamp < t - TrackerTtl

\* the sweep's test on a registered session: now - data.timestamp > 10000
\* the age test never succeeds
ClientExpired_Never(client, t) == FALSE

ClientExpired(client, t) == t - client.timestamp > ClientMaxAge

-----------------------------------------------------------------------------
(* Response handles.  state: "held" while the request is open and unanswered,
   "message" / "timeout" once a body went out, "gone" once the client has
   disconnected without an answer. *)

NewHandle(username, t) ==
  [username |-> username, state |-> "held", attempts |-> 0, body |-> 0,
   armedAt |-> t, timer |-> TRUE]

\* express res.json: throws once the headers have been sent
ResJsonThrows(h) == h.state \in {"message", "timeout"}

\* res.json(body) that does not throw: an open handle is answered, a write to a
\* connection the client has left goes nowhere
ResJson(h, kind, messageId) ==
  IF h.state = "held"
    THEN [h EXCEPT !.state = kind, !.body = messageId, !.attempts = @ + 1]
    ELSE [h EXCEPT !.attempts = @ + 1]

-----------------------------------------------------------------------------
(* MessageService.broadcastMessage *)

\* the recipients.includes(username) test left out
DispatchEntry_AllSessions(st, e, msg) ==
  IF Delivered(st.tr, msg.id, e.username) THEN st
  ELSE [st EXCEPT !.hs[e.clientId] = ResJson(@, "message", msg.id),
                  !.tr = IF msg.id \in DOMAIN @
                           THEN [@ EXCEPT ![msg.id].deliveredTo = @ \cup {e.username}]
                           ELSE @,
                  !.cc = MapDelete(@, e.clientId),
                  !.ac = @ - 1,
                  !.hd = @ (+) SetToBag({<<msg.id, e.username>>})]

\* the answered session is left in the registry
DispatchEntry_KeepsSession(st, e, msg) ==
  IF e.username \notin msg.recipients THEN st
  ELSE IF Delivered(st.tr, msg.id, e.username) THEN st
  ELSE [st EXCEPT !.hs[e.clientId] = ResJson(@, "message", msg.id),
                  !.tr = IF msg.id \in DOMAIN @
                           THEN [@ EXCEPT ![msg.id].deliveredTo = @ \cup {e.username}]
                           ELSE @,
                  !.hd = @ (+) SetToBag({<<msg.id, e.username>>})]

\* the body of processBatch's loop for one snapshot entry, on the record st of
\* the fields the loop reads and writes
DispatchEntry(st, e, msg) ==
  IF e.username \notin msg.recipients THEN st
  ELSE IF Delivered(st.tr, msg.id, e.username) THEN st
  ELSE LET h == st.hs[e.clientId] IN
    IF ResJsonThrows(h)
      THEN [st EXCEPT !.hs[e.clientId].attempts = @ + 1,
                      !.cc = MapDelete(@, e.clientId),
                      !.ac = @ - 1]
      ELSE [st EXCEPT !.hs[e.clientId] = ResJson(h, "message", msg.id),
                      !.tr = IF msg.id \in DOMAIN @
                               THEN [@ EXCEPT ![msg.id].deliveredTo = @ \cup {e.username}]
                               ELSE @,
                      !.cc = MapDelete(@, e.clientId),
                      !.ac = @ - 1,
                      !.hd = @ (+) SetToBag({<<msg.id, e.username>>})]

RECURSIVE DispatchRange(_, _, _, _, _)
\* for (i = batchStart; i < batchEnd; i++), entries indexed from 1
DispatchRange(st, entries, i, batchEnd, msg) ==
  IF i > batchEnd THEN st
  ELSE DispatchRange(DispatchEntry(st, entries[i], msg), entries, i + 1, batchEnd, msg)

BatchEnd(entries, batchIndex) == Min(batchIndex * batchSize + batchSize, Len(entries))

\* processBatch(clientEntries, batchIndex) on st
processBatch(st, entries, batchIndex, msg) ==
  IF batchIndex * batchSize >= Len(entries) THEN st
  ELSE DispatchRange(st, entries, batchIndex * batchSize + 1,
                     BatchEnd(entries, batchIndex), msg)

\* the setImmediate processBatch leaves behind when entries remain
NextSlice(entries, batchIndex, msg) ==
  IF batchIndex * batchSize < Len(entries) /\ BatchEnd(entries, batchIndex) < Len(entries)
    THEN <<[kind |-> "slice", msg |-> msg, entries |-> entries,
            batchIndex |-> batchIndex + 1]>>
    ELSE <<>>

\* [...this.connectedClients.entries()]
Snapshot(cc) == [i \in DOMAIN cc |-> [clientId |-> cc[i].clientId, username |-> cc[i].username]]

LoopState == [cc |-> connectedClients, ac |-> activeConnections,
              tr |-> messageDeliveryTracker, hs |-> handles, hd |-> handed]

-----------------------------------------------------------------------------
(* Initial state: MessageService's constructor *)

\* request bodies of POST /api/messages/send: a field is "" when the body
\* lacks it
Bodies ==
  [encryptedContent : {"", "ciphertext"}, iv : {"", "iv"}, recipientKeys : {"", "keys"}]

CompleteBody == [encryptedContent |-> "ciphertext", iv |-> "iv", recipientKeys |-> "keys"]

\* the iv is not tested
MissingFields_IvUnchecked(body) == body.encryptedContent = "" \/ body.recipientKeys = ""

\* !encryptedContent || !iv || !recipientKeys
MissingFields(body) == body.encryptedContent = "" \/ body.iv = "" \/ body.recipientKeys = ""

\* sendLog: the status and the body of the most recent send request
NoSend == [status |-> 0, body |-> CompleteBody]

Accepted201 == [status |-> 201, body |-> CompleteBody]

\* pollLog: the answer of the most recent poll and the activeConnections it saw
NoPoll == [outcome |-> "none", active |-> 0, retryAfter |-> 0]

NoSessions ==
  /\ connectedClients = <<>>
  /\ activeConnections = 0
  /\ handles = <<>>
  /\ pollLog = NoPoll

NoMessages ==
  /\ messageQueue = <<>>
  /\ queuedFlag = {}
  /\ messageDeliveryTracker = <<>>
  /\ messageBatch = <<>>
  /\ immediates = <<>>
  /\ nextMsgId = 1
  /\ accepted = {}
  /\ sendLog = NoSend

NothingWritten ==
  /\ writes = <<>>
  /\ store = {}
  /\ dropLog = <<>>
  /\ flushLog = "none"

Fresh ==
  /\ now = 0
  /\ handed = EmptyBag
  /\ evicted = {}
  /\ crashes = 0

\* the parts of the system outside this worker's MessageService, at rest
Elsewhere ==
  /\ peer = <<>>
  /\ coordinator = <<>>
  /\ tokens = <<>>
  /\ documents = <<>>
  /\ worker = <<>>

Init ==
  /\ NoSessions /\ NoMessages /\ NothingWritten /\ Fresh /\ Elsewhere
  /\ MAX_CLIENTS_PER_WORKER = ClientsPerWorker(NumCpus)

-----------------------------------------------------------------------------
(* MessageController.pollMessages, for the authenticated identity username *)

PollRejected(username) ==
  /\ isAtCapacity
  /\ pollLog' = [outcome |-> "rejected", active |-> activeConnections,
                 retryAfter |-> RetryAfter]
  /\ UNCHANGED <<connectedClients, activeConnections, messageDeliveryTracker, handles,
                 handed>>

\* the session is registered without looking at the queue
PollRegisters_NoScan(username) ==
  LET clientId == Len(handles) + 1 IN
  /\ ~isAtCapacity
  /\ connectedClients' = Append(connectedClients,
       [clientId |-> clientId, username |-> username, timestamp |-> now])
  /\ activeConnections' = activeConnections + 1
  /\ handles' = Append(handles, NewHandle(username, now))
  /\ pollLog' = [outcome |-> "registered", active |-> activeConnections, retryAfter |-> 0]
  /\ UNCHANGED <<messageDeliveryTracker, handed>>

\* the queue is scanned before the load is looked at
PollFromQueue_BeforeCapacity(username) ==
  LET i == hasMessageForUser(messageQueue, messageDeliveryTracker, username) IN
  /\ i # 0
  /\ messageDeliveryTracker' =
       markMessageDelivered(messageDeliveryTracker, messageQueue[i].id, username, now)
  /\ handed' = handed (+) SetToBag({<<messageQueue[i].id, username>>})
  /\ pollLog' = [outcome |-> "message", active |-> activeConnections, retryAfter |-> 0]
  /\ UNCHANGED <<connectedClients, activeConnections, handles>>

PollFromQueue(username) ==
  LET i == hasMessageForUser(messageQueue, messageDeliveryTracker, username) IN
  /\ ~isAtCapacity
  /\ i # 0
  /\ messageDeliveryTracker' =
       markMessageDelivered(messageDeliveryTracker, messageQueue[i].id, username, now)
  /\ handed' = handed (+) SetToBag({<<messageQueue[i].id, username>>})
  /\ pollLog' = [outcome |-> "message", active |-> activeConnections, retryAfter |-> 0]
  /\ UNCHANGED <<connectedClients, activeConnections, handles>>

\* addClient, req.on("close"), setTimeout(5000); clientId is a fresh UUID
PollRegisters(username) ==
  LET clientId == Len(handles) + 1 IN
  /\ ~isAtCapacity
  /\ hasMessageForUser(messageQueue, messageDeliveryTracker, username) = 0
  /\ connectedClients' = Append(connectedClients,
       [clientId |-> clientId, username |-> username, timestamp |-> now])
  /\ activeConnections' = activeConnections + 1
  /\ handles' = Append(handles, NewHandle(username, now))
  /\ pollLog' = [outcome |-> "registered", active |-> activeConnections, retryAfter |-> 0]
  /\ UNCHANGED <<messageDeliveryTracker, handed>>

\* the handler, from the capacity check to the response or the registration
pollHandler(username) ==
  /\ \/ PollRejected(username)
     \/ PollFromQueue(username)
     \/ PollRegisters(username)
  /\ UNCHANGED <<now, messageQueue, queuedFlag, messageBatch, writes, store, dropLog, flushLog,
                 immediates, nextMsgId, accepted, evicted, crashes, MAX_CLIENTS_PER_WORKER,
                 peer, coordinator, tokens, documents, sendLog>>

pollMessages(username) == pollHandler(username) /\ UNCHANGED worker

\* MessageService.removeClient
removeClient(cc, clientId) == MapDelete(cc, clientId)

\* the timeout is answered without removeClient
TimerFire_NoRemove(clientId) ==
  /\ clientId \in DOMAIN handles
  /\ handles[clientId].timer
  /\ now >= handles[clientId].armedAt + PollTimeout
  /\ handles' = [handles EXCEPT ![clientId] =
       [(IF ResJsonThrows(@) THEN [@ EXCEPT !.attempts = @ + 1]
                             ELSE ResJson(@, "timeout", 0))
          EXCEPT !.timer = FALSE]]
  /\ UNCHANGED <<now, connectedClients, activeConnections, messageQueue, queuedFlag,
                 messageDeliveryTracker, messageBatch, writes, store, dropLog, flushLog,
                 immediates, nextMsgId, accepted, handed, evicted, pollLog, crashes,
                 MAX_CLIENTS_PER_WORKER,
                 peer, coordinator, tokens, documents, sendLog, worker>>

\* the handler's setTimeout callback, 5000 ms after registration or later
TimerFire(clientId) ==
  /\ clientId \in DOMAIN handles
  /\ handles[clientId].timer
  /\ now >= handles[clientId].armedAt + PollTimeout
  /\ IF MapHas(connectedClients, clientId)
       THEN /\ connectedClients' = removeClient(connectedClients, clientId)
            /\ activeConnections' = activeConnections - 1
            /\ handles' = [handles EXCEPT ![clientId] =
                 [(IF ResJsonThrows(@) THEN [@ EXCEPT !.attempts = @ + 1]
                                       ELSE ResJson(@, "timeout", 0))
                    EXCEPT !.timer = FALSE]]
       ELSE /\ handles' = [handles EXCEPT ![clientId].timer = FALSE]
            /\ UNCHANGED <<connectedClients, activeConnections>>
  /\ UNCHANGED <<now, messageQueue, queuedFlag, messageDeliveryTracker, messageBatch,
                 writes, store, dropLog, flushLog, immediates, nextMsgId, accepted, handed,
                 evicted, pollLog, crashes, MAX_CLIENTS_PER_WORKER,
                 peer, coordinator, tokens, documents, sendLog, worker>>

\* the client leaves before any answer: req's "close" listener
Disconnect(clientId) ==
  /\ clientId \in DOMAIN handles
  /\ handles[clientId].state = "held"
  /\ handles' = [handles EXCEPT ![clientId].state = "gone"]
  /\ IF MapHas(connectedClients, clientId)
       THEN /\ connectedClients' = removeClient(connectedClients, clientId)
            /\ activeConnections' = activeConnections - 1
       ELSE UNCHANGED <<connectedClients, activeConnections>>
  /\ UNCHANGED <<now, messageQueue, queuedFlag, messageDeliveryTracker, messageBatch,
                 writes, store, dropLog, flushLog, immediates, nextMsgId, accepted, handed,
                 evicted, pollLog, crashes, MAX_CLIENTS_PER_WORKER,
                 peer, coordinator, tokens, documents, sendLog, worker>>

-----------------------------------------------------------------------------
(* MessageController.sendMessage: the synchronous tail after the awaited
   recipient lookup and id creation *)

\* the message is put on the catch-up queue in the handler itself instead of
\* in a setImmediate callback
sendMessage_BroadcastsInline(recipients) ==
  LET newMessage == [id |-> nextMsgId, recipients |-> recipients] IN
  /\ nextMsgId' = nextMsgId + 1
  /\ messageBatch' = Append(messageBatch, newMessage)
  /\ messageQueue' = Append(messageQueue, newMessage)
  /\ queuedFlag' = queuedFlag \cup {newMessage.id}
  /\ accepted' = accepted \cup {newMessage.id}
  /\ sendLog' = Accepted201
  /\ UNCHANGED <<now, connectedClients, activeConnections, immediates,
                 messageDeliveryTracker, writes, store, dropLog, flushLog, handles, handed,
                 evicted, pollLog, crashes, MAX_CLIENTS_PER_WORKER,
                 peer, coordinator, tokens, documents, worker>>

\* the tail of the handler for a body that passed the validation
sendAccepted(body, recipients) ==
  LET newMessage == [id |-> nextMsgId, recipients |-> recipients] IN
  /\ nextMsgId' = nextMsgId + 1
  /\ messageBatch' = Append(messageBatch, newMessage)
  /\ immediates' = Append(immediates,
       [kind |-> "broadcast", msg |-> newMessage, entries |-> <<>>, batchIndex |-> 0])
  /\ accepted' = accepted \cup {newMessage.id}
  /\ sendLog' = [status |-> 201, body |-> body]
  /\ UNCHANGED <<now, connectedClients, activeConnections, messageQueue, queuedFlag,
                 messageDeliveryTracker, writes, store, dropLog, flushLog, handles, handed,
                 evicted, pollLog, crashes, MAX_CLIENTS_PER_WORKER,
                 peer, coordinator, tokens, documents, worker>>

\* a send with a complete body
sendMessage(recipients) == sendAccepted(CompleteBody, recipients)

-----------------------------------------------------------------------------
(* setImmediate callbacks, in the order they were queued *)

\* !recipients.length
HasNoRecipients(msg) == msg.recipients = {}

\* the _queued flag is not looked at
AlreadyQueued_Never(msg) == FALSE

\* the _queued flag reads as already set, so nothing is pushed
AlreadyQueued_Always(msg) == TRUE

\* message._queued
AlreadyQueued(msg) == msg.id \in queuedFlag

\* broadcastMessage(message), called from sendMessage's setImmediate
broadcastMessage(msg) ==
  IF HasNoRecipients(msg)
    THEN /\ immediates' = Tail(immediates)
         /\ UNCHANGED <<connectedClients, activeConnections, messageDeliveryTracker,
                        handles, handed, messageQueue, queuedFlag>>
    ELSE
      LET tracker == IF msg.id \in DOMAIN messageDeliveryTracker
                       THEN messageDeliveryTracker
                       ELSE (msg.id :> [deliveredTo |-> {}, timestamp |-> now])
                              @@ messageDeliveryTracker
          entries == Snapshot(connectedClients)
          st == processBatch([LoopState EXCEPT !.tr = tracker], entries, 0, msg)
      IN /\ connectedClients' = st.cc
         /\ activeConnections' = st.ac
         /\ messageDeliveryTracker' = st.tr
         /\ handles' = st.hs
         /\ handed' = st.hd
         /\ immediates' = Tail(immediates) \o NextSlice(entries, 0, msg)
         /\ IF ~AlreadyQueued(msg)
              THEN /\ queuedFlag' = queuedFlag \cup {msg.id}
                   /\ messageQueue' = Append(messageQueue, msg)
              ELSE UNCHANGED <<messageQueue, queuedFlag>>

\* processBatch(clientEntries, batchIndex + 1), queued by the slice before it
RunSlice(task) ==
  LET st == processBatch(LoopState, task.entries, task.batchIndex, task.msg) IN
  /\ connectedClients' = st.cc
  /\ activeConnections' = st.ac
  /\ messageDeliveryTracker' = st.tr
  /\ handles' = st.hs
  /\ handed' = st.hd
  /\ immediates' = Tail(immediates) \o NextSlice(task.entries, task.batchIndex, task.msg)
  /\ UNCHANGED <<messageQueue, queuedFlag>>

RunImmediate ==
  /\ immediates # <<>>
  /\ IF Head(immediates).kind = "broadcast"
       THEN broadcastMessage(Head(immediates).msg)
       ELSE RunSlice(Head(immediates))
  /\ UNCHANGED <<now, messageBatch, writes, store, dropLog, flushLog, nextMsgId, accepted,
                 evicted, pollLog, crashes, MAX_CLIENTS_PER_WORKER,
                 peer, coordinator, tokens, documents, sendLog, worker>>

-----------------------------------------------------------------------------
(* The batch timer of initBatchProcessing and the awaited bulk write *)

\* the tick: swap the pending batch for an empty one and issue one bulk write
BatchTick ==
  /\ messageBatch # <<>>
  /\ writes' = Append(writes, messageBatch)
  /\ messageBatch' = <<>>
  /\ UNCHANGED <<now, connectedClients, activeConnections, messageQueue, queuedFlag,
                 messageDeliveryTracker, store, dropLog, flushLog, immediates, handles, nextMsgId,
                 accepted, handed, evicted, pollLog, crashes, MAX_CLIENTS_PER_WORKER,
                 peer, coordinator, tokens, documents, sendLog, worker>>

RemoveAt(s, i) == SubSeq(s, 1, i - 1) \o SubSeq(s, i + 1, Len(s))

\* MessageRepository.saveBulkMessages resolves: every insertOne was applied.
\* An insert of an _id the collection already holds is a write error.
WriteOk(i) ==
  /\ i \in DOMAIN writes
  /\ Ids(writes[i]) \cap store = {}
  /\ store' = store \cup Ids(writes[i])
  /\ writes' = RemoveAt(writes, i)
  /\ flushLog' = "saved"
  /\ UNCHANGED <<now, connectedClients, activeConnections, messageQueue, queuedFlag,
                 messageDeliveryTracker, messageBatch, dropLog, immediates, handles,
                 nextMsgId, accepted, handed, evicted, pollLog, crashes, MAX_CLIENTS_PER_WORKER,
                 peer, coordinator, tokens, documents, sendLog, worker>>

\* batch.length < 20 in place of batch.length <= 20
AfterFailure_Strict(pending, batch) ==
  IF Len(batch) < BatchRetryLimit THEN pending \o batch ELSE pending

\* what the catch block leaves in the pending batch for a failed batch
AfterFailure(pending, batch) ==
  IF Len(batch) <= BatchRetryLimit THEN pending \o batch ELSE pending

\* saveBulkMessages rejects; the unordered bulk write had applied the inserts of
\* the ids in applied before it failed
WriteFail(i, applied) ==
  /\ i \in DOMAIN writes
  /\ applied \subseteq Ids(writes[i]) \ store
  /\ store' = store \cup applied
  /\ writes' = RemoveAt(writes, i)
  /\ messageBatch' = AfterFailure(messageBatch, writes[i])
  /\ dropLog' = IF Len(writes[i]) <= BatchRetryLimit
                  THEN dropLog
                  ELSE Append(dropLog, Len(writes[i]))
  /\ flushLog' = "error"
  /\ UNCHANGED <<now, connectedClients, activeConnections, messageQueue, queuedFlag,
                 messageDeliveryTracker, immediates, handles, nextMsgId, accepted,
                 handed, evicted, pollLog, crashes, MAX_CLIENTS_PER_WORKER,
                 peer, coordinator, tokens, documents, sendLog, worker>>

-----------------------------------------------------------------------------
(* The 5 s cleanup timer of initCleanupInterval *)

Sweep ==
  LET expired == {i \in DOMAIN connectedClients : ClientExpired(connectedClients[i], now)}
      stale == {id \in DOMAIN messageDeliveryTracker :
                   TrackerExpired(messageDeliveryTracker[id], now)}
  IN /\ connectedClients' = SelectSeq(connectedClients, LAMBDA c : ~ClientExpired(c, now))
     /\ activeConnections' = activeConnections - Cardinality(expired)
     /\ messageQueue' = TrimQueue(messageQueue)
     /\ messageDeliveryTracker' =
          [id \in DOMAIN messageDeliveryTracker \ stale |-> messageDeliveryTracker[id]]
     /\ evicted' = evicted \cup stale
     /\ UNCHANGED <<now, queuedFlag, messageBatch, writes, store, dropLog, flushLog, immediates,
                    handles, nextMsgId, accepted, handed, pollLog, crashes, MAX_CLIENTS_PER_WORKER,
                 peer, coordinator, tokens, documents, sendLog, worker>>

-----------------------------------------------------------------------------
(* The clock *)

\* the clock moves by one sweep interval, or by just over the tracker's TTL
LongStep == TrackerTtl + SweepInterval

TimeSteps == {SweepInterval, LongStep}

TickCount(t) == (t \div LongStep) + ((t % LongStep) \div SweepInterval)

Advance(d) ==
  /\ now' = now + d
  /\ UNCHANGED <<connectedClients, activeConnections, messageQueue, queuedFlag,
                 messageDeliveryTracker, messageBatch, writes, store, dropLog, flushLog,
                 immediates, handles, nextMsgId, accepted, handed, evicted, pollLog,
                 crashes, MAX_CLIENTS_PER_WORKER,
                 peer, coordinator, tokens, documents, sendLog, worker>>

-----------------------------------------------------------------------------
(* The worker process dies and the master forks a replacement, which
   constructs a fresh MessageService.  Bulk writes on their way to the store
   at that moment are applied or not. *)

Crash(applied) ==
  /\ applied \subseteq UNION {Ids(writes[i]) : i \in DOMAIN writes} \ store
  /\ store' = store \cup applied
  /\ connectedClients' = <<>>
  /\ activeConnections' = 0
  /\ messageQueue' = <<>>
  /\ queuedFlag' = {}
  /\ messageDeliveryTracker' = <<>>
  /\ messageBatch' = <<>>
  /\ writes' = <<>>
  /\ immediates' = <<>>
  /\ handles' = [c \in DOMAIN handles |->
                   [handles[c] EXCEPT !.state = IF @ = "held" THEN "gone" ELSE @,
                                      !.timer = FALSE]]
  /\ crashes' = crashes + 1
  /\ UNCHANGED <<now, dropLog, flushLog, nextMsgId, accepted, handed, evicted, pollLog,
                 MAX_CLIENTS_PER_WORKER,
                 peer, coordinator, tokens, documents, sendLog, worker>>

-----------------------------------------------------------------------------
(* The worker *)

\* what getAllUsers yields: every known identity, or the sender alone on error
RecipientSets == {{"alice"}, Users}

Next ==
  \/ \E u \in Users : pollMessages(u) /\ Len(handles') <= MaxPolls
  \/ nextMsgId <= MaxMsgs /\ \E recipients \in RecipientSets : sendMessage(recipients)
  \/ RunImmediate
  \/ \E c \in DOMAIN handles : TimerFire(c)
  \/ \E c \in DOMAIN handles : Disconnect(c)
  \/ Sweep
  \/ TickCount(now) < MaxTicks /\ \E d \in TimeSteps : Advance(d)

Spec == Init /\ [][Next]_vars

-----------------------------------------------------------------------------
(* Delivery *)

Copies(messageId, username) == CopiesIn(<<messageId, username>>, handed)

InTracker(tracker, messageId, username) ==
  messageId \in DOMAIN tracker /\ username \in tracker[messageId].deliveredTo

Registered(username) ==
  \E i \in DOMAIN connectedClients : connectedClients[i].username = username

\* C1: while the delivery record of a message has not been evicted by the TTL
\* sweep, no recipient has been handed that message more than once, live
\* dispatch and queue pickup counted together.
C1_AtMostOnce ==
  \A p \in BagToSet(handed) : p[1] \notin evicted => CopiesIn(p, handed) <= 1

\* alice polled twice and holds a session still, the broadcast of a message to
\* her is over, and she has been handed it once
C1_Witness ==
  /\ immediates = <<>>
  /\ Registered("alice")
  /\ \E m \in queuedFlag : m \notin evicted /\ Copies(m, "alice") = 1
  /\ \E c \in DOMAIN handles : handles[c].username = "alice" /\ handles[c].state = "message"

\* C2: a registered poll is resolved by exactly one of dispatch, timeout and
\* disconnect, never by two: no response handle sees a second res.json, and a
\* session the client has left sees none.  (That some resolution comes at all
\* is left out: the client may still leave at any later time.)
C2_ResolvedOnce ==
  \A c \in DOMAIN handles :
    /\ handles[c].attempts <= 1
    /\ handles[c].state = "gone" => handles[c].attempts = 0

\* C5: a poll that takes a message from the queue marks it delivered to the
\* polling identity in the very step that finds it and answers with it.  A
\* step that hands out a copy and touches no held response is such a poll.
C5_PickupIsOneStep ==
  [][\A u \in Users : \A m \in Ids(messageQueue) :
       (handles' = handles /\ CopiesIn(<<m, u>>, handed') > Copies(m, u))
         => /\ ~InTracker(messageDeliveryTracker, m, u)
            /\ InTracker(messageDeliveryTracker', m, u)
            /\ hasMessageForUser(messageQueue', messageDeliveryTracker', u) = 0
                 \/ messageQueue'[hasMessageForUser(messageQueue', messageDeliveryTracker', u)].id # m
            /\ pollLog'.outcome = "message"]_vars

\* bob took the message from the queue while alice holds a session
C5_Witness ==
  /\ pollLog.outcome = "message"
  /\ \E m \in Ids(messageQueue) : Copies(m, "bob") = 1 /\ InTracker(messageDeliveryTracker, m, "bob")
  /\ \A c \in DOMAIN handles : handles[c].username = "alice"
  /\ Registered("alice")

-----------------------------------------------------------------------------
(* Admission.  The worker of a machine with cpus processors, after k polls by
   alice that were each admitted and registered and none of which has been
   resolved; only workers within HeldWindow sessions of the admission
   threshold are looked at. *)

CpuCounts == {8, 750, 1500, 2143, 5000}

HeldSessions(k) ==
  /\ connectedClients = [i \in 1 .. k |-> [clientId |-> i, username |-> "alice", timestamp |-> 0]]
  /\ activeConnections = k
  /\ handles = [i \in 1 .. k |-> NewHandle("alice", 0)]
  /\ pollLog = IF k = 0 THEN NoPoll
               ELSE [outcome |-> "registered", active |-> k - 1, retryAfter |-> 0]

\* the k-th of k polls was admitted: the k - 1 sessions before it were below 0.9
Admitted(k, capacity) == k = 0 \/ 10 * (k - 1) < 9 * capacity

InitAdmission ==
  /\ NoMessages /\ NothingWritten /\ Fresh /\ Elsewhere
  /\ \E cpus \in CpuCounts :
       /\ MAX_CLIENTS_PER_WORKER = ClientsPerWorker(cpus)
       /\ \E k \in 0 .. ClientsPerWorker(cpus) :
            /\ Admitted(k, ClientsPerWorker(cpus))
            /\ 10 * (k + HeldWindow) >= 9 * ClientsPerWorker(cpus)
            /\ HeldSessions(k)

NextAdmission ==
  \/ \E u \in Users : pollMessages(u)
       /\ 10 * (Len(handles') - MaxRepolls - 1) < 9 * MAX_CLIENTS_PER_WORKER
  \/ \E c \in DOMAIN handles : c > Len(handles) - MaxLeavers /\ Disconnect(c)

SpecAdmission == InitAdmission /\ [][NextAdmission]_vars

\* C3: a poll is answered with the 503 capacity rejection exactly when
\* activeConnections / MAX_CLIENTS_PER_WORKER >= 0.9 as its handler runs; a
\* rejected poll gets neither to the queue scan nor into the registry.
C3_RejectedIffAtCapacity ==
  /\ [](/\ (pollLog.outcome = "rejected"
              => 10 * pollLog.active >= 9 * MAX_CLIENTS_PER_WORKER)
         /\ (pollLog.outcome \in {"registered", "message"}
              => 10 * pollLog.active < 9 * MAX_CLIENTS_PER_WORKER))
  /\ [][(pollLog' # pollLog /\ pollLog'.outcome = "rejected")
          => UNCHANGED <<connectedClients, activeConnections, handles, messageQueue,
                         messageDeliveryTracker, handed>>]_vars

\* a poll was rejected at a ratio of exactly 0.9
C3_Witness ==
  /\ pollLog.outcome = "rejected"
  /\ 10 * pollLog.active = 9 * MAX_CLIENTS_PER_WORKER
  /\ Len(connectedClients) = pollLog.active

Clamp(x, lo, hi) == IF x < lo THEN lo ELSE IF x > hi THEN hi ELSE x

\* C4: the Retry-After of a capacity rejection is clamp(ceil(load * 5), 1, 10),
\* lies in 1 .. 10, and is no smaller than the value for any smaller load at
\* which a poll is rejected.
C4_RetryAfterClamped ==
  pollLog.outcome = "rejected" =>
    /\ pollLog.retryAfter = Clamp(CeilDiv(5 * pollLog.active, MAX_CLIENTS_PER_WORKER), 1, 10)
    /\ pollLog.retryAfter \in 1 .. 10
    /\ \A a \in 0 .. pollLog.active :
         (10 * a >= 9 * MAX_CLIENTS_PER_WORKER)
           => (Clamp(CeilDiv(5 * a, MAX_CLIENTS_PER_WORKER), 1, 10) <= pollLog.retryAfter)

\* a rejection at a load below 1, where load * 5 is no integer
C4_Witness ==
  /\ pollLog.outcome = "rejected"
  /\ pollLog.active < MAX_CLIENTS_PER_WORKER
  /\ (5 * pollLog.active) % MAX_CLIENTS_PER_WORKER # 0
  /\ pollLog.retryAfter = 5

-----------------------------------------------------------------------------
(* The batcher.  The worker after n sends inside one batch interval, each
   followed by its broadcast to an empty registry, and before the first tick. *)

BurstMessages(n) == [i \in 1 .. n |-> [id |-> i, recipients |-> Users]]

AfterBurst(n) ==
  /\ messageQueue = BurstMessages(n)
  /\ queuedFlag = 1 .. n
  /\ messageDeliveryTracker = [i \in 1 .. n |-> [deliveredTo |-> {}, timestamp |-> 0]]
  /\ messageBatch = BurstMessages(n)
  /\ immediates = <<>>
  /\ nextMsgId = n + 1
  /\ accepted = 1 .. n
  /\ sendLog = IF n = 0 THEN NoSend ELSE Accepted201

BurstSizes == {BatchRetryLimit - 1, BatchRetryLimit, BatchRetryLimit + 1}

InitBatch ==
  /\ NoSessions /\ NothingWritten /\ Fresh /\ Elsewhere
  /\ MAX_CLIENTS_PER_WORKER = ClientsPerWorker(NumCpus)
  /\ \E n \in BurstSizes : AfterBurst(n)

\* the inserts a failed bulk write may have applied: none, the first, or all
\* that the collection does not hold yet
AppliedChoices(batch) ==
  {{}, {batch[1].id} \ store, Ids(batch) \ store}

NextBatch ==
  \/ /\ nextMsgId <= BatchRetryLimit + MaxBatchExtra
     /\ Len(immediates) < MaxPendingImmediates
     /\ sendMessage(Users)
  \/ RunImmediate
  \/ Len(writes) < MaxWrites /\ BatchTick
  \/ \E i \in DOMAIN writes : WriteOk(i)
  \/ \E i \in DOMAIN writes : \E applied \in AppliedChoices(writes[i]) : WriteFail(i, applied)
  \/ /\ crashes < MaxCrashes
     /\ \E applied \in {{}, UNION {Ids(writes[i]) : i \in DOMAIN writes} \ store} :
          Crash(applied)

SpecBatch == InitBatch /\ [][NextBatch]_vars

\* the ids in the bulk writes that have not resolved yet
InFlight == UNION {Ids(writes[i]) : i \in DOMAIN writes}

\* C6: when the bulk write of a swapped-out batch fails, a batch of at most 20
\* messages is back in the pending batch in full and nothing is logged as
\* dropped, a batch of more than 20 is not re-queued at all and its size is
\* logged as dropped; and the write issued at a tick carries the whole pending
\* batch, so the re-merged messages are in the next write.
C6_FailedFlush ==
  /\ [][\A i \in DOMAIN writes :
          (crashes' = crashes /\ flushLog' = "error" /\ writes' = RemoveAt(writes, i))
            => IF Len(writes[i]) <= 20
                 THEN /\ Range(writes[i]) \subseteq Range(messageBatch')
                      /\ dropLog' = dropLog
                 ELSE /\ Ids(writes[i]) \cap Ids(messageBatch') = {}
                      /\ dropLog' = Append(dropLog, Len(writes[i]))]_vars
  /\ [][Len(writes') > Len(writes)
          => writes' = Append(writes, messageBatch) /\ messageBatch' = <<>>]_vars

\* a batch of 21 was dropped and logged, and later a batch of one failed and
\* is back in the pending batch
C6_Witness ==
  /\ dropLog = <<BatchRetryLimit + 1>>
  /\ flushLog = "error"
  /\ writes = <<>>
  /\ Ids(messageBatch) = {BatchRetryLimit + 2}
  /\ store = {}

\* C7: after a crash of the worker every message whose send was answered
\* "accepted" is still in the store, or still on its way to it or to a
\* recipient (pending batch, bulk write in flight, catch-up queue).
C7_NoAcceptedMessageLost ==
  crashes > 0 =>
    \A id \in accepted :
      id \in store \cup Ids(messageBatch) \cup InFlight \cup Ids(messageQueue)

-----------------------------------------------------------------------------
(* The catch-up queue.  The worker after n sends that were broadcast to an
   empty registry and written to the store, before the sweep has trimmed. *)

Backlog(n) ==
  /\ messageQueue = BurstMessages(n)
  /\ queuedFlag = 1 .. n
  /\ messageDeliveryTracker = [i \in 1 .. n |-> [deliveredTo |-> {}, timestamp |-> 0]]
  /\ messageBatch = <<>>
  /\ immediates = <<>>
  /\ nextMsgId = n + 1
  /\ accepted = 1 .. n
  /\ sendLog = IF n = 0 THEN NoSend ELSE Accepted201
  /\ writes = <<>>
  /\ store = 1 .. n
  /\ dropLog = <<>>
  /\ flushLog = IF n = 0 THEN "none" ELSE "saved"

HighWatermark == (9 * MAX_QUEUE_SIZE) \div 10

BacklogSizes ==
  {HighWatermark - 1, HighWatermark, HighWatermark + 1, MAX_QUEUE_SIZE - 1, MAX_QUEUE_SIZE}

InitQueue ==
  /\ NoSessions /\ Fresh /\ Elsewhere
  /\ MAX_CLIENTS_PER_WORKER = ClientsPerWorker(NumCpus)
  /\ \E n \in BacklogSizes : Backlog(n)

NextQueue ==
  \/ /\ Cardinality(accepted \ store) < MaxBurst
     /\ Len(immediates) < MaxPendingImmediates
     /\ sendMessage(Users)
  \/ RunImmediate
  \/ Sweep
  \/ TickCount(now) < MaxTicks /\ \E d \in TimeSteps : Advance(d)

SpecQueue == InitQueue /\ [][NextQueue]_vars

\* C8: the queue loses entries only in a step that finds more than
\* 0.9 * MAX_QUEUE_SIZE of them, and is then left with exactly
\* floor(0.7 * MAX_QUEUE_SIZE), its newest; a sweep that finds at most
\* 0.9 * MAX_QUEUE_SIZE leaves it as it is.
C8_TrimAtWatermarks ==
  /\ [][Len(messageQueue') < Len(messageQueue)
          => /\ 10 * Len(messageQueue) > 9 * MAX_QUEUE_SIZE
             /\ Len(messageQueue') = (7 * MAX_QUEUE_SIZE) \div 10
             /\ messageQueue' = SubSeq(messageQueue,
                                       Len(messageQueue) - Len(messageQueue') + 1,
                                       Len(messageQueue))]_vars
  /\ [][Sweep => IF 10 * Len(messageQueue) > 9 * MAX_QUEUE_SIZE
                   THEN Len(messageQueue') = (7 * MAX_QUEUE_SIZE) \div 10
                   ELSE messageQueue' = messageQueue]_vars

\* a sweep has found 4501 entries and left the newest 3500
C8_Witness ==
  /\ Len(messageQueue) = 3500
  /\ Head(messageQueue).id = 1002
  /\ messageQueue[3500].id = 4501

\* C9 as stated: the sweep that finds 5001 entries leaves 3500 and drops 1500
C9_SweepDrops1500 ==
  [][(Sweep /\ Len(messageQueue) = 5001)
       => /\ Len(messageQueue') = 3500
          /\ Len(messageQueue) - Len(messageQueue') = 1500]_vars

\* C9: the sweep that finds 5001 entries leaves 3500, and what it drops is the
\* oldest 1501.
C9_SweepDrops1501 ==
  [][(Sweep /\ Len(messageQueue) = 5001)
       => /\ Len(messageQueue') = 3500
          /\ messageQueue' = SubSeq(messageQueue, 1502, 5001)]_vars

\* the queue held 5000, one more was enqueued, and the sweep has run
C9_Witness ==
  /\ Len(messageQueue) = 3500
  /\ Head(messageQueue).id = 1502
  /\ messageQueue[3500].id = 5001

\* C10 as stated: the queue never holds more than MAX_QUEUE_SIZE entries
C10_QueueBounded == Len(messageQueue) <= 5000

\* C10: every sweep leaves the queue with at most 0.9 * MAX_QUEUE_SIZE
\* entries; between sweeps each broadcast adds one without a test.
C10_BoundedAfterSweep ==
  /\ [][Sweep => 10 * Len(messageQueue') <= 9 * MAX_QUEUE_SIZE]_vars
  /\ [][Len(messageQueue') <= Len(messageQueue) + 1]_vars

\* a sweep has found 5002 entries, two above MAX_QUEUE_SIZE, and left 3500
C10_Witness ==
  /\ Len(messageQueue) = 3500
  /\ Head(messageQueue).id = 1503
  /\ messageQueue[3500].id = 5002

-----------------------------------------------------------------------------
(* Live dispatch, step by step *)

\* the snapshot entries the setImmediate callback at the head of the queue
\* walks: all of a fresh snapshot's first slice, or the next slice of an old one
SliceEntries ==
  LET t == Head(immediates)
      ents == IF t.kind = "broadcast" THEN Snapshot(connectedClients) ELSE t.entries
      lo == t.batchIndex * batchSize + 1
      hi == Min(t.batchIndex * batchSize + batchSize, Len(ents))
  IN [i \in lo .. hi |-> ents[i]]

\* the positions in the slice of the entries of identity a
EntriesOf(a) == {i \in DOMAIN SliceEntries : SliceEntries[i].username = a}

FirstOf(S) == CHOOSE i \in S : \A j \in S : i <= j

\* C11 as stated: a broadcast answers every registered session of every
\* recipient not yet in the delivered set (registries that fit in one slice)
C11_EverySessionAnswered ==
  [][(RunImmediate /\ Head(immediates).kind = "broadcast"
        /\ Len(connectedClients) <= batchSize)
      => \A i \in DOMAIN connectedClients :
           LET c == connectedClients[i] IN
           (/\ c.username \in Head(immediates).msg.recipients
            /\ ~InTracker(messageDeliveryTracker, Head(immediates).msg.id, c.username))
             => /\ handles'[c.clientId].state = "message"
                /\ ~MapHas(connectedClients', c.clientId)]_vars

\* C11: in each dispatch slice of m, for each recipient a not yet in m's
\* delivered set, the first snapshot entry of a, when its session is still
\* registered, is answered with m and removed from the registry, and m's
\* delivery record (while it exists) contains a afterwards; the further
\* sessions of a in the slice stay registered and unanswered.
C11_FirstSessionAnswered ==
  [][RunImmediate
      => LET m == Head(immediates).msg IN
         \A a \in m.recipients :
           (/\ ~InTracker(messageDeliveryTracker, m.id, a)
            /\ EntriesOf(a) # {}
            /\ MapHas(connectedClients, SliceEntries[FirstOf(EntriesOf(a))].clientId))
             => /\ LET c == SliceEntries[FirstOf(EntriesOf(a))].clientId IN
                     /\ handles'[c].state = "message"
                     /\ handles'[c].body = m.id
                     /\ ~MapHas(connectedClients', c)
                     /\ CopiesIn(<<m.id, a>>, handed') = CopiesIn(<<m.id, a>>, handed) + 1
                /\ (m.id \in DOMAIN messageDeliveryTracker'
                      => a \in messageDeliveryTracker'[m.id].deliveredTo)
                /\ \A j \in EntriesOf(a) \ {FirstOf(EntriesOf(a))} :
                     LET d == SliceEntries[j].clientId IN
                       /\ MapHas(connectedClients', d) = MapHas(connectedClients, d)
                       /\ handles'[d].state = handles[d].state]_vars

\* alice and bob each held one poll, both were answered with message 1, and
\* the registry is empty
C11_Witness ==
  /\ Len(handles) = 2
  /\ handles[1].username # handles[2].username
  /\ \A c \in {1, 2} : handles[c].state = "message" /\ handles[c].body = 1
  /\ connectedClients = <<>>
  /\ 1 \in DOMAIN messageDeliveryTracker
  /\ messageDeliveryTracker[1].deliveredTo = Users

\* C12: a dispatch slice of m leaves every registered session whose identity
\* is not in m.recipients in the registry with its response handle as it was,
\* and lowers the active count by no more than the number of snapshot entries
\* of the slice whose identity is in m.recipients.
C12_NonRecipientsUntouched ==
  [][RunImmediate
      => LET m == Head(immediates).msg IN
         /\ \A i \in DOMAIN connectedClients :
              LET c == connectedClients[i] IN
              c.username \notin m.recipients
                => /\ \E j \in DOMAIN connectedClients' : connectedClients'[j] = c
                   /\ handles'[c.clientId] = handles[c.clientId]
         /\ activeConnections - activeConnections'
              <= Cardinality({i \in DOMAIN SliceEntries :
                                SliceEntries[i].username \in m.recipients})]_vars

\* bob registered before alice, a message for alice alone answered alice's
\* poll, and bob's session is still registered and held
C12_Witness ==
  \E b, a \in DOMAIN handles :
    /\ b < a
    /\ handles[b].username = "bob" /\ handles[b].state = "held"
    /\ MapHas(connectedClients, b)
    /\ handles[a].username = "alice" /\ handles[a].state = "message"
    /\ messageQueue # <<>>
    /\ messageQueue[1].id = handles[a].body
    /\ messageQueue[1].recipients = {"alice"}

-----------------------------------------------------------------------------
(* MessageService driven directly: broadcastMessage is called on message
   objects built by the caller, any of them more than once *)

MessageObjects ==
  {[id |-> 1, recipients |-> {}],
   [id |-> 2, recipients |-> {"alice"}],
   [id |-> 3, recipients |-> Users]}

\* setImmediate(() => messageService.broadcastMessage(message))
deferBroadcast(msg) ==
  /\ immediates' = Append(immediates,
       [kind |-> "broadcast", msg |-> msg, entries |-> <<>>, batchIndex |-> 0])
  /\ UNCHANGED <<now, connectedClients, activeConnections, messageQueue, queuedFlag,
                 messageDeliveryTracker, messageBatch, writes, store, dropLog, flushLog,
                 handles, nextMsgId, accepted, handed, evicted, pollLog, crashes,
                 MAX_CLIENTS_PER_WORKER,
                 peer, coordinator, tokens, documents, sendLog, worker>>

NextService ==
  \/ \E u \in Users : pollMessages(u) /\ Len(handles') <= MaxPolls
  \/ /\ Len(immediates) < MaxPendingImmediates
     /\ \E msg \in MessageObjects : deferBroadcast(msg)
  \/ RunImmediate

SpecService == Init /\ [][NextService]_vars

\* how often the message with this id is in the queue
TimesQueued(queue, id) == Cardinality({i \in DOMAIN queue : queue[i].id = id})

\* C13 as stated: after every broadcastMessage(m), m is in the queue exactly once
C13_QueuedAfterEveryBroadcast ==
  [][(RunImmediate /\ Head(immediates).kind = "broadcast")
      => TimesQueued(messageQueue', Head(immediates).msg.id) = 1]_vars

\* C13: the first broadcastMessage of a message with at least one recipient
\* appends it to the queue, connected recipients or not; a broadcastMessage of
\* a message without recipients, or of one broadcast before, leaves the queue
\* as it is; so no message is in the queue twice.
C13_EnqueuedOnce ==
  /\ [][(RunImmediate /\ Head(immediates).kind = "broadcast")
         => LET m == Head(immediates).msg IN
            IF m.recipients # {} /\ TimesQueued(messageQueue, m.id) = 0
              THEN messageQueue' = Append(messageQueue, m)
              ELSE messageQueue' = messageQueue]_vars
  /\ [](\A m \in MessageObjects : TimesQueued(messageQueue, m.id) <= 1)

\* message 3 went out to a held poll and is in the queue, message 2 was
\* queued with nobody connected for it, and message 3 is being broadcast again
C13_Witness ==
  /\ Len(messageQueue) = 2
  /\ \E c \in DOMAIN handles : handles[c].state = "message" /\ handles[c].body = 3
  /\ \A c \in DOMAIN handles : handles[c].body # 2
  /\ immediates # <<>>
  /\ Head(immediates).kind = "broadcast"
  /\ Head(immediates).msg.id = 3

-----------------------------------------------------------------------------
(* The poll timeout *)

-----------------------------------------------------------------------------
(* The order of a send's effects *)

\* the ids of the messages broadcastMessage or the store have seen
Processed(queue, tracker, inFlight, stored) ==
  Ids(queue) \cup DOMAIN tracker \cup UNION {Ids(inFlight[i]) : i \in DOMAIN inFlight}
    \cup stored

\* C15: in the step that answers a send with 201, the message is in the
\* pending batch and its broadcast is waiting in the setImmediate queue, and
\* it is not yet in the catch-up queue, the delivery tracker, a bulk write or
\* the store; so no broadcast slice and no store write of a message precedes
\* its send response.
C15_ResponseBeforeBroadcastAndFlush ==
  /\ [][\A id \in accepted' \ accepted :
          /\ id \in Ids(messageBatch')
          /\ \E i \in DOMAIN immediates' :
               immediates'[i].kind = "broadcast" /\ immediates'[i].msg.id = id
          /\ id \notin Processed(messageQueue', messageDeliveryTracker', writes', store')]_vars
  /\ [](Processed(messageQueue, messageDeliveryTracker, writes, store) \subseteq accepted)

\* a send has been answered: its message is in the pending batch, its
\* broadcast has not run and nothing of it has been written
C15_Witness ==
  /\ immediates # <<>>
  /\ Head(immediates).kind = "broadcast"
  /\ Head(immediates).msg.id \in accepted
  /\ Head(immediates).msg.id \in Ids(messageBatch)
  /\ Head(immediates).msg.id \notin
       Processed(messageQueue, messageDeliveryTracker, writes, store)
  /\ writes # <<>>

-----------------------------------------------------------------------------
(* Two worker processes.  Each constructs its own MessageService; the cluster
   module hands an incoming connection to either.  The variables above are
   worker A; peer is the MessageService of worker B, with at most one held
   poll per identity and a registry that fits in one dispatch slice. *)

FreshPeer ==
  [messageQueue |-> <<>>, messageDeliveryTracker |-> <<>>, held |-> {},
   immediates |-> <<>>, pollLog |-> [outcome |-> "none", body |-> 0]]

InitCluster ==
  /\ NoSessions /\ NoMessages /\ NothingWritten /\ Fresh
  /\ MAX_CLIENTS_PER_WORKER = ClientsPerWorker(NumCpus)
  /\ peer = FreshPeer
  /\ coordinator = <<>> /\ tokens = <<>> /\ documents = <<>> /\ worker = <<>>

\* sendMessage handled by worker B; ids come from the shared store
PeerSend(recipients) ==
  LET newMessage == [id |-> nextMsgId, recipients |-> recipients] IN
  /\ nextMsgId' = nextMsgId + 1
  /\ accepted' = accepted \cup {newMessage.id}
  /\ sendLog' = Accepted201
  /\ peer' = [peer EXCEPT !.immediates = Append(@, newMessage)]
  /\ UNCHANGED <<now, connectedClients, activeConnections, messageQueue, queuedFlag,
                 messageDeliveryTracker, messageBatch, writes, store, dropLog, flushLog,
                 immediates, handles, handed, evicted, pollLog, crashes,
                 MAX_CLIENTS_PER_WORKER, coordinator, tokens, documents, worker>>

\* broadcastMessage in worker B: its held polls of recipients are answered,
\* the message goes on B's queue
PeerBroadcast ==
  /\ peer.immediates # <<>>
  /\ LET msg == Head(peer.immediates)
         due == peer.held \cap msg.recipients
     IN /\ peer' = [peer EXCEPT
               !.immediates = Tail(@),
               !.held = @ \ due,
               !.messageDeliveryTracker =
                  (msg.id :> [deliveredTo |-> due, timestamp |-> now]) @@ @,
               !.messageQueue = Append(@, msg)]
        /\ handed' = handed (+) SetToBag({<<msg.id, u>> : u \in due})
  /\ UNCHANGED <<now, connectedClients, activeConnections, messageQueue, queuedFlag,
                 messageDeliveryTracker, messageBatch, writes, store, dropLog, flushLog,
                 immediates, handles, nextMsgId, accepted, evicted, pollLog, crashes,
                 MAX_CLIENTS_PER_WORKER, coordinator, tokens, documents, sendLog, worker>>

\* pollMessages handled by worker B: it scans B's queue and B's tracker
PeerPoll(username) ==
  LET i == hasMessageForUser(peer.messageQueue, peer.messageDeliveryTracker, username) IN
  /\ username \notin peer.held
  /\ IF i # 0
       THEN /\ peer' = [peer EXCEPT
                 !.messageDeliveryTracker =
                    markMessageDelivered(@, peer.messageQueue[i].id, username, now),
                 !.pollLog = [outcome |-> "message", body |-> peer.messageQueue[i].id]]
            /\ handed' = handed (+) SetToBag({<<peer.messageQueue[i].id, username>>})
       ELSE /\ peer' = [peer EXCEPT !.held = @ \cup {username},
                                    !.pollLog = [outcome |-> "registered", body |-> 0]]
            /\ UNCHANGED handed
  /\ UNCHANGED <<now, connectedClients, activeConnections, messageQueue, queuedFlag,
                 messageDeliveryTracker, messageBatch, writes, store, dropLog, flushLog,
                 immediates, handles, nextMsgId, accepted, evicted, pollLog, crashes,
                 MAX_CLIENTS_PER_WORKER, coordinator, tokens, documents, sendLog, worker>>

\* the 5 s timer of a poll held by worker B
PeerTimeout(username) ==
  /\ username \in peer.held
  /\ peer' = [peer EXCEPT !.held = @ \ {username},
                          !.pollLog = [outcome |-> "timeout", body |-> 0]]
  /\ UNCHANGED <<now, connectedClients, activeConnections, messageQueue, queuedFlag,
                 messageDeliveryTracker, messageBatch, writes, store, dropLog, flushLog,
                 immediates, handles, nextMsgId, accepted, handed, evicted, pollLog,
                 crashes, MAX_CLIENTS_PER_WORKER, coordinator, tokens, documents, sendLog, worker>>

NextCluster ==
  \/ /\ nextMsgId <= MaxClusterMsgs
     /\ Len(immediates) < MaxPendingImmediates
     /\ sendMessage(Users)
  \/ RunImmediate
  \/ \E u \in Users : pollMessages(u) /\ Len(handles') <= 1
  \/ \E c \in DOMAIN handles : Disconnect(c)
  \/ nextMsgId <= MaxClusterMsgs /\ PeerSend(Users)
  \/ PeerBroadcast
  \/ \E u \in Users : PeerPoll(u)
  \/ \E u \in Users : PeerTimeout(u)

SpecCluster == InitCluster /\ [][NextCluster]_vars

\* C16: a poll handled by worker B for a recipient of a message that worker A
\* has accepted and broadcast, and that the recipient has not been handed, is
\* answered with a queued message instead of being suspended.
C16_CrossWorkerPickup ==
  [][\A u \in Users :
       (/\ PeerPoll(u)
        /\ \E i \in DOMAIN messageQueue :
             /\ u \in messageQueue[i].recipients
             /\ Copies(messageQueue[i].id, u) = 0)
         => peer'.pollLog.outcome = "message"]_vars

-----------------------------------------------------------------------------
(* The master process of index.js: connection accounting *)

\* the counts a worker reports
Counts == {0, 95, 120}

RECURSIVE SumOver(_, _)
\* Object.values(map).reduce((a, b) => a + b, 0), over the keys in keys
SumOver(map, keys) ==
  IF keys = {} THEN 0
  ELSE LET k == CHOOSE x \in keys : TRUE IN map[k] + SumOver(map, keys \ {k})

SumValues(map) == SumOver(map, DOMAIN map)

\* after the fork loop and the Object.keys(cluster.workers).forEach that
\* attaches a "message" listener to each worker forked so far
StartedCoordinator ==
  [workers |-> 1 .. NumWorkers, listening |-> 1 .. NumWorkers,
   nextWorkerId |-> NumWorkers + 1, workerConnections |-> <<>>,
   totalConnections |-> 0, inbox |-> <<>>, reported |-> <<>>]

InitCoordinator ==
  /\ NoSessions /\ NoMessages /\ NothingWritten /\ Fresh
  /\ MAX_CLIENTS_PER_WORKER = ClientsPerWorker(NumCpus)
  /\ coordinator = StartedCoordinator
  /\ peer = <<>> /\ tokens = <<>> /\ documents = <<>> /\ worker = <<>>

\* the total is bumped by the reported count instead of being recomputed
CountsAfter_Accumulating(co, w, count) ==
  [co EXCEPT !.workerConnections = (w :> count) @@ @,
             !.totalConnections = @ + count]

\* the listener body: workerConnections[worker.id] = msg.count, then the reduce
CountsAfter(co, w, count) ==
  [co EXCEPT !.workerConnections = (w :> count) @@ @,
             !.totalConnections = SumValues((w :> count) @@ co.workerConnections)]

\* a worker's process.send({type: "connections", count})
WorkerReport(w, count) ==
  /\ w \in coordinator.workers
  /\ Len(coordinator.inbox) < MaxInbox
  /\ coordinator' = [coordinator EXCEPT !.inbox = Append(@, [from |-> w, count |-> count])]
  /\ UNCHANGED <<now, connectedClients, activeConnections, messageQueue, queuedFlag,
                 messageDeliveryTracker, messageBatch, writes, store, dropLog, flushLog,
                 immediates, handles, nextMsgId, accepted, handed, evicted, pollLog,
                 crashes, MAX_CLIENTS_PER_WORKER, peer, tokens, documents, sendLog, worker>>

\* the master receives the message: the listener runs if one is attached to
\* the worker object the message came from
MasterReceive ==
  /\ coordinator.inbox # <<>>
  /\ LET msg == Head(coordinator.inbox)
         co == [coordinator EXCEPT !.inbox = Tail(@)]
     IN coordinator' =
          IF msg.from \in coordinator.listening
            THEN [CountsAfter(co, msg.from, msg.count)
                    EXCEPT !.reported = (msg.from :> msg.count) @@ @]
            ELSE co
  /\ UNCHANGED <<now, connectedClients, activeConnections, messageQueue, queuedFlag,
                 messageDeliveryTracker, messageBatch, writes, store, dropLog, flushLog,
                 immediates, handles, nextMsgId, accepted, handed, evicted, pollLog,
                 crashes, MAX_CLIENTS_PER_WORKER, peer, tokens, documents, sendLog, worker>>

\* cluster.on("exit"): the worker is gone and cluster.fork() starts another;
\* no listener is attached to the new worker
WorkerExit(w) ==
  /\ w \in coordinator.workers
  /\ coordinator' = [coordinator EXCEPT
        !.workers = (@ \ {w}) \cup {coordinator.nextWorkerId},
        !.nextWorkerId = @ + 1]
  /\ crashes' = crashes + 1
  /\ UNCHANGED <<now, connectedClients, activeConnections, messageQueue, queuedFlag,
                 messageDeliveryTracker, messageBatch, writes, store, dropLog, flushLog,
                 immediates, handles, nextMsgId, accepted, handed, evicted, pollLog,
                 MAX_CLIENTS_PER_WORKER, peer, tokens, documents, sendLog, worker>>

NextCoordinator ==
  \/ \E w \in coordinator.workers : \E count \in Counts : WorkerReport(w, count)
  \/ MasterReceive
  \/ crashes < MaxCrashes /\ \E w \in coordinator.workers : WorkerExit(w)

SpecCoordinator == InitCoordinator /\ [][NextCoordinator]_vars

-----------------------------------------------------------------------------
(* The auth boundary: the authenticate middleware with its in-memory
   tokenBlacklist, and AuthController.logout.  Time is in seconds. *)

\* signed tokens: prefix is token.substring(0, 10), exp the expiry claim
TokenPool ==
  {[id |-> 1, prefix |-> "p", exp |-> 1],
   [id |-> 2, prefix |-> "p", exp |-> 2],
   [id |-> 3, prefix |-> "q", exp |-> 2]}

\* redis: whether global.redisSetAsync is defined in this deployment;
\* revoked: the ids of the tokens blacklistToken has been called with
InitAuth ==
  /\ NoSessions /\ NoMessages /\ NothingWritten /\ Fresh
  /\ MAX_CLIENTS_PER_WORKER = ClientsPerWorker(NumCpus)
  /\ \E redis \in BOOLEAN :
       tokens = [redis |-> redis, clock |-> 0, tokenBlacklist |-> <<>>,
                 redisKeys |-> {}, loggedOut |-> {}, revoked |-> {},
                 authLog |-> [token |-> 0, outcome |-> "none"]]
  /\ peer = <<>> /\ coordinator = <<>> /\ documents = <<>> /\ worker = <<>>

\* isTokenBlacklisted: tokenBlacklist.has(token.substring(0, 10))
isTokenBlacklisted(blacklist, t) == t.prefix \in DOMAIN blacklist

\* verifyToken as authenticate sees it: the revocation test, then jwt.verify
verifyToken(blacklist, t, clock) ==
  IF isTokenBlacklisted(blacklist, t) THEN "revoked"
  ELSE IF clock >= t.exp THEN "expired"
  ELSE "accepted"

OtherVarsAuth ==
  <<now, connectedClients, activeConnections, messageQueue, queuedFlag,
    messageDeliveryTracker, messageBatch, writes, store, dropLog, flushLog,
    immediates, handles, nextMsgId, accepted, handed, evicted, pollLog,
    crashes, MAX_CLIENTS_PER_WORKER, peer, coordinator, documents, sendLog, worker>>

\* a request that presents t passes through the authenticate middleware
Authenticate(t) ==
  /\ tokens' = [tokens EXCEPT !.authLog =
        [token |-> t.id, outcome |-> verifyToken(tokens.tokenBlacklist, t, tokens.clock)]]
  /\ UNCHANGED OtherVarsAuth

\* POST /api/auth/logout with t: authenticate, then AuthController.logout,
\* which calls userRepository.blacklistToken when the token has time left
Logout(t) ==
  /\ verifyToken(tokens.tokenBlacklist, t, tokens.clock) = "accepted"
  /\ tokens' = [tokens EXCEPT
        !.redisKeys = IF tokens.redis /\ t.exp - tokens.clock > 0
                        THEN @ \cup {t.prefix} ELSE @,
        !.loggedOut = @ \cup {t.id},
        !.authLog = [token |-> t.id, outcome |-> "accepted"]]
  /\ UNCHANGED OtherVarsAuth

\* the blacklistToken the middleware module exports
blacklistToken(t) ==
  /\ tokens' = [tokens EXCEPT !.tokenBlacklist = (t.prefix :> t.exp) @@ @,
                              !.revoked = @ \cup {t.id}]
  /\ UNCHANGED OtherVarsAuth

\* the middleware's cleanup interval: entries with now >= expiry are deleted
BlacklistSweep ==
  /\ tokens' = [tokens EXCEPT !.tokenBlacklist =
        [k \in {x \in DOMAIN @ : tokens.clock < @[x]} |-> @[k]]]
  /\ UNCHANGED OtherVarsAuth

AuthTick ==
  /\ tokens.clock < MaxAuthClock
  /\ tokens' = [tokens EXCEPT !.clock = @ + 1]
  /\ UNCHANGED OtherVarsAuth

NextAuth ==
  \/ \E t \in TokenPool : Authenticate(t)
  \/ \E t \in TokenPool : Logout(t)
  \/ \E t \in TokenPool : blacklistToken(t)
  \/ BlacklistSweep
  \/ AuthTick

SpecAuth == InitAuth /\ [][NextAuth]_vars

\* C18: a request that presents a token its user has logged out with is not
\* accepted by the authenticate middleware.
C18_LoggedOutTokenRejected ==
  [][\A t \in TokenPool :
       (Authenticate(t) /\ t.id \in tokens.loggedOut)
         => tokens'.authLog.outcome # "accepted"]_vars

-----------------------------------------------------------------------------
(* The stored message documents and MessageRepository.markMessageAsRead.
   documents maps a message id to its document; readBy is the array of
   {username, readAt} subdocuments. *)

\* the authenticated identities that may call the read endpoint
Readers == Users \cup {"mallory"}

DocumentIds == {1, 2}

InitRead ==
  /\ NoSessions /\ NoMessages /\ NothingWritten /\ Fresh
  /\ MAX_CLIENTS_PER_WORKER = ClientsPerWorker(NumCpus)
  /\ documents = <<>>
  /\ peer = <<>> /\ coordinator = <<>> /\ tokens = <<>> /\ worker = <<>>

OtherVarsRead ==
  <<connectedClients, activeConnections, messageQueue, queuedFlag,
    messageDeliveryTracker, messageBatch, writes, store, dropLog, flushLog,
    immediates, handles, nextMsgId, accepted, handed, evicted, pollLog,
    crashes, MAX_CLIENTS_PER_WORKER, peer, coordinator, tokens, sendLog, worker>>

\* the bulk write's insertOne of a new message: isUnread true, nobody has read
\* it; an insert of an _id the collection holds already is rejected
InsertDocument(id, recipients) ==
  /\ id \notin DOMAIN documents
  /\ documents' = (id :> [recipients |-> recipients, readBy |-> <<>>, isUnread |-> TRUE])
                    @@ documents
  /\ UNCHANGED now
  /\ UNCHANGED OtherVarsRead

\* the recipients test left out of the filter
ReadFilter_AnyUser(doc, username) ==
  \A i \in DOMAIN doc.readBy : doc.readBy[i].username # username

\* the filter of the updateOne: recipients: username and
\* "readBy.username": {$ne: username}
ReadFilter(doc, username) ==
  /\ username \in doc.recipients
  /\ \A i \in DOMAIN doc.readBy : doc.readBy[i].username # username

\* $addToSet: the element is appended unless an equal one is in the array
AddToSet(array, element) ==
  IF \E i \in DOMAIN array : array[i] = element THEN array ELSE Append(array, element)

\* markMessageAsRead(messageId, username): one atomic updateOne
markMessageAsRead(messageId, username) ==
  /\ IF messageId \in DOMAIN documents /\ ReadFilter(documents[messageId], username)
       THEN documents' = [documents EXCEPT ![messageId] =
              [@ EXCEPT !.readBy = AddToSet(@, [username |-> username, readAt |-> now]),
                        !.isUnread = FALSE]]
       ELSE UNCHANGED documents
  /\ UNCHANGED now
  /\ UNCHANGED OtherVarsRead

ReadClock ==
  /\ TickCount(now) < MaxTicks
  /\ \E d \in TimeSteps : now' = now + d
  /\ UNCHANGED documents
  /\ UNCHANGED OtherVarsRead

NextRead ==
  \/ \E id \in DocumentIds : \E recipients \in RecipientSets : InsertDocument(id, recipients)
  \/ \E id \in DocumentIds : \E u \in Readers : markMessageAsRead(id, u)
  \/ ReadClock

SpecRead == InitRead /\ [][NextRead]_vars

\* C19: for every stored message, whatever markMessageAsRead calls are made:
\* the recipients list does not change, every readBy entry names a recipient,
\* no identity is in readBy twice, and isUnread never goes from false to true.
C19_ReadReceipts ==
  /\ [](\A id \in DOMAIN documents :
          LET doc == documents[id] IN
          /\ \A i \in DOMAIN doc.readBy : doc.readBy[i].username \in doc.recipients
          /\ \A i, j \in DOMAIN doc.readBy :
               doc.readBy[i].username = doc.readBy[j].username => i = j)
  /\ [][\A id \in DOMAIN documents :
          /\ id \in DOMAIN documents'
          /\ documents'[id].recipients = documents[id].recipients
          /\ (~documents[id].isUnread => ~documents'[id].isUnread)]_vars

\* message 1 has been read by both of its recipients, at different times
C19_Witness ==
  /\ 1 \in DOMAIN documents
  /\ documents[1].recipients = Users
  /\ Len(documents[1].readBy) = 2
  /\ documents[1].readBy[1].readAt # documents[1].readBy[2].readAt
  /\ ~documents[1].isUnread

-----------------------------------------------------------------------------
(* MessageController.sendMessage from the request body on *)

\* the 400 answer of the validation at the top of the handler
sendRejected(body) ==
  /\ MissingFields(body)
  /\ sendLog' = [status |-> 400, body |-> body]
  /\ UNCHANGED <<now, connectedClients, activeConnections, messageQueue, queuedFlag,
                 messageDeliveryTracker, messageBatch, writes, store, dropLog, flushLog,
                 immediates, handles, nextMsgId, accepted, handed, evicted, pollLog,
                 crashes, MAX_CLIENTS_PER_WORKER, peer, coordinator, tokens, documents, worker>>

\* the handler: validation, then the accepting tail with the body it was given
sendRequest(body, recipients) ==
  \/ sendRejected(body)
  \/ ~MissingFields(body) /\ sendAccepted(body, recipients)

NextSend ==
  \/ /\ nextMsgId <= MaxMsgs + 1
     /\ \E body \in Bodies : \E recipients \in RecipientSets : sendRequest(body, recipients)
  \/ RunImmediate
  \/ \E u \in Users : pollMessages(u) /\ Len(handles') <= 2
  \/ \E c \in DOMAIN handles : Disconnect(c)

SpecSend == Init /\ [][NextSend]_vars

\* C20: a send whose body lacks the ciphertext, the IV or the recipient-key
\* map is answered 400, and the step that answers 400 creates no message id and
\* leaves the pending batch, the setImmediate queue, the catch-up queue, the
\* registry and the delivery tracker as they were.
C20_InvalidSendChangesNothing ==
  /\ [](sendLog.status # 0
          => (sendLog.status = 400
                <=> (\/ sendLog.body.encryptedContent = ""
                     \/ sendLog.body.iv = ""
                     \/ sendLog.body.recipientKeys = "")))
  /\ [][(sendLog' # sendLog /\ sendLog'.status = 400)
          => UNCHANGED <<nextMsgId, accepted, messageBatch, immediates, messageQueue,
                         queuedFlag, connectedClients, activeConnections, handles,
                         messageDeliveryTracker, handed>>]_vars
  /\ [][(nextMsgId' # nextMsgId \/ accepted' # accepted) => sendLog'.status = 201]_vars

\* a send without IV was answered 400 while a poll was held and an earlier
\* message sat in the queue
C20_Witness ==
  /\ sendLog.status = 400
  /\ sendLog.body.iv = ""
  /\ sendLog.body.encryptedContent # ""
  /\ messageQueue # <<>>
  /\ connectedClients # <<>>
  /\ nextMsgId = 2

-----------------------------------------------------------------------------
(* Dispatch against sessions that are gone *)

\* the positions in the slice of the recipients' entries whose session is
\* still in the registry
LiveTargets ==
  {i \in DOMAIN SliceEntries :
     /\ SliceEntries[i].username \in Head(immediates).msg.recipients
     /\ MapHas(connectedClients, SliceEntries[i].clientId)}

\* C21: a dispatch slice that reaches a snapshot entry whose session is no
\* longer in the registry attempts no response on it, and the slice lowers the
\* active count only for entries whose session it found registered.
C21_StaleDispatchIsNoOp ==
  [][RunImmediate
      => /\ \A i \in DOMAIN SliceEntries :
              ~MapHas(connectedClients, SliceEntries[i].clientId)
                => handles'[SliceEntries[i].clientId] = handles[SliceEntries[i].clientId]
         /\ activeConnections - activeConnections' <= Cardinality(LiveTargets)]_vars

-----------------------------------------------------------------------------
(* When the broadcast puts its message on the catch-up queue *)

\* the continuations of broadcasts that still have slices to run
PendingSlices == {i \in DOMAIN immediates : immediates[i].kind # "broadcast"}

\* C22 as amended: the message is pushed onto the catch-up queue in the same
\* synchronous step as slice 0, so it is in the queue, once, throughout the
\* time the later slices of its broadcast are pending.
C22_QueuedWhileSlicesPending ==
  \A i \in PendingSlices : TimesQueued(messageQueue, immediates[i].msg.id) = 1

\* C22 as stated: the message is not in the queue while slices are pending.
C22_NotQueuedWhileSlicesPending ==
  \A i \in PendingSlices : TimesQueued(messageQueue, immediates[i].msg.id) = 0

\* a broadcast over a three-entry snapshot has run slice 0 and waits for
\* slice 1
C22_Witness ==
  \E i \in PendingSlices :
    /\ Len(immediates[i].entries) > batchSize
    /\ immediates[i].batchIndex = 1

-----------------------------------------------------------------------------
(* The flush under a storage outage: every bulk write is rejected.  The batch
   timer keeps firing and every awaited write settles. *)

WriteRejected ==
  \E i \in DOMAIN writes : \E applied \in AppliedChoices(writes[i]) : WriteFail(i, applied)

TimerTick == Len(writes) < MaxWrites /\ BatchTick

NextOutage ==
  \/ /\ nextMsgId <= BatchRetryLimit + MaxBatchExtra
     /\ Len(immediates) < MaxPendingImmediates
     /\ sendMessage(Users)
  \/ RunImmediate
  \/ TimerTick
  \/ WriteRejected

SpecOutage ==
  InitBatch /\ [][NextOutage]_vars /\ WF_vars(TimerTick) /\ WF_vars(WriteRejected)

\* C23: under the outage every failed batch is eventually persisted or
\* dropped: from some point on nothing is pending and nothing is in flight.
C23_FailedBatchSettles == <>[](messageBatch = <<>> /\ writes = <<>>)

-----------------------------------------------------------------------------
(* The queue scan of a poll when the queue is longer than the scan limit.
   Messages are addressed to one identity or to both, so that a match can lie
   behind entries for somebody else. *)

MaxQueued == 3

\* one session more than a two-slice snapshot holds
MaxScanPolls == 4

ScanRecipients == SUBSET Users \ {{}}

NextScan ==
  \/ \E u \in Users : pollMessages(u) /\ Len(handles') <= MaxScanPolls
  \/ /\ nextMsgId <= MaxQueued
     /\ Len(immediates) < MaxPendingImmediates
     /\ \E recipients \in ScanRecipients : sendMessage(recipients)
  \/ RunImmediate

SpecScan == Init /\ [][NextScan]_vars

\* the queue positions that hold a message addressed to username and not yet
\* delivered to it
Undelivered(username) ==
  {i \in DOMAIN messageQueue :
     /\ username \in messageQueue[i].recipients
     /\ ~Delivered(messageDeliveryTracker, messageQueue[i].id, username)}

\* the last ScanLimit positions of the queue
NewestK == {i \in DOMAIN messageQueue : i > Len(messageQueue) - ScanLimit}

LeastOf(S) == CHOOSE i \in S : \A j \in S : i <= j

\* C24: when the queue holds more than K messages, a poll that is not rejected
\* inspects the newest K entries: it is answered with the first undelivered
\* match among them, and registers when there is none among them.
C24_ScanExaminesNewest ==
  [][\A u \in Users :
       (pollMessages(u) /\ Len(messageQueue) > ScanLimit /\ pollLog'.outcome # "rejected")
         => IF Undelivered(u) \cap NewestK = {}
              THEN pollLog'.outcome = "registered"
              ELSE handed' = handed (+)
                     SetToBag({<<messageQueue[LeastOf(Undelivered(u) \cap NewestK)].id, u>>})]_vars

-----------------------------------------------------------------------------
(* A poll handled while a broadcast still has slices to run *)

\* the snapshot positions the pending continuation and its successors will
\* still visit
Remaining(task) ==
  {k \in DOMAIN task.entries : k > task.batchIndex * batchSize}

\* C26: a poll by a recipient of m, handled while slices of the broadcast of m
\* are pending and m is not yet delivered to that recipient, and not rejected
\* for capacity, is answered at once from the queue, or else the session it
\* registers is one the remaining slices will visit.
C26_PollBetweenSlicesGetsMessage ==
  [][\A u \in Users : \A i \in PendingSlices :
       ( /\ pollMessages(u)
         /\ u \in immediates[i].msg.recipients
         /\ ~Delivered(messageDeliveryTracker, immediates[i].msg.id, u)
         /\ pollLog'.outcome # "rejected" )
         => \/ pollLog'.outcome = "message"
            \/ \E k \in Remaining(immediates[i]) :
                 immediates[i].entries[k].clientId = Len(handles')]_vars

-----------------------------------------------------------------------------
(* The order of the capacity check and the queue scan *)

\* C27: a poll handled at a load of 0.9 or more by an identity that has an
\* undelivered message in the queue is rejected, and the rejection leaves the
\* registry, the active count, the queue and the delivery tracker as they were.
C27_CapacityCheckPrecedesScan ==
  [][\A u \in Users :
       (pollMessages(u) /\ isAtCapacity /\ Undelivered(u) # {})
         => /\ pollLog'.outcome = "rejected"
            /\ UNCHANGED <<connectedClients, activeConnections, messageQueue,
                           messageDeliveryTracker>>]_vars

\* the head of the queue was broadcast to both identities and answered one
\* session of bob, the only response handed out so far; a fourth session then
\* brought the worker back to capacity, and the poll after it was rejected
\* while the head of the queue was still undelivered to alice
C27_Witness ==
  /\ pollLog.outcome = "rejected"
  /\ Len(handles) = MaxScanPolls
  /\ Len(connectedClients) = pollLog.active
  /\ messageQueue # <<>>
  /\ messageQueue[1].recipients = Users
  /\ messageDeliveryTracker[messageQueue[1].id].deliveredTo = {"bob"}
  /\ handed = SetToBag({<<messageQueue[1].id, "bob">>})
  /\ \E c \in DOMAIN handles : handles[c].state = "message"

-----------------------------------------------------------------------------
(* Stale sessions.  The cleanup interval keeps firing and the clock keeps
   moving; timers and close listeners may run or not.  Polls arrive during the
   first part of the observed time span, so that every session is observed for
   more than the max age plus one sweep interval. *)

SweepTicks == 4

ClockEnd == SweepTicks * SweepInterval

ClockTick == now < ClockEnd /\ Advance(SweepInterval)

NextSweep ==
  \/ /\ now + ClientMaxAge + SweepInterval <= ClockEnd
     /\ \E u \in Users : pollMessages(u) /\ Len(handles') <= MaxPolls
  \/ \E c \in DOMAIN handles : TimerFire(c)
  \/ \E c \in DOMAIN handles : Disconnect(c)
  \/ Sweep
  \/ ClockTick

SpecSweep == Init /\ [][NextSweep]_vars /\ WF_vars(Sweep) /\ WF_vars(ClockTick)

\* C28: every session in the registry is eventually out of it, and a sweep
\* removes exactly the sessions whose age exceeds 10 s: it keeps every session
\* of that age or younger.
C28_NoSessionLeak ==
  /\ \A c \in 1 .. MaxPolls :
       MapHas(connectedClients, c) ~> ~MapHas(connectedClients, c)
  /\ [][Sweep => \A i \in DOMAIN connectedClients :
                   MapHas(connectedClients', connectedClients[i].clientId)
                     <=> now - connectedClients[i].timestamp <= ClientMaxAge]_vars

\* the sweep took a session out of the registry whose timer and close listener
\* have not run, while a session aged exactly 10 s stayed in
C28_Witness ==
  /\ \E c \in DOMAIN handles :
       /\ handles[c].state = "held" /\ handles[c].timer
       /\ ~MapHas(connectedClients, c)
       /\ now - handles[c].armedAt > ClientMaxAge
  /\ \E i \in DOMAIN connectedClients : now - connectedClients[i].timestamp = ClientMaxAge

-----------------------------------------------------------------------------
(* Count replies of replacement workers *)

\* C29: when the coordinator receives the count reply of a live worker, that
\* worker's entry in the map becomes the replied count and the total becomes
\* the sum of the map, for workers forked as replacements as well.
C29_EveryReplyUpdatesMap ==
  [][(MasterReceive /\ Head(coordinator.inbox).from \in coordinator.workers)
       => LET msg == Head(coordinator.inbox) IN
          /\ msg.from \in DOMAIN coordinator'.workerConnections
          /\ coordinator'.workerConnections[msg.from] = msg.count
          /\ coordinator'.totalConnections = SumValues(coordinator'.workerConnections)]_vars

-----------------------------------------------------------------------------
(* Shutdown of a worker (index.js, worker branch).  A poll request passes the
   first middleware, then waits in authenticate for the user lookup, then
   reaches pollMessages.  The requests carry a valid token of an existing
   user. *)

\* server.maxConnections
maxConnections(cpus) == CeilDiv(20000, IF cpus > 1 THEN cpus - 1 ELSE 1)

MaxSockets == 2

MaxInFlight == 2

\* sockets: index.js's activeConnections, the open sockets;
\* authenticating: the identities of the requests waiting in await getUser;
\* reqLog: what the first middleware did with the most recent request
RunningWorker ==
  [isShuttingDown |-> FALSE, sockets |-> 0, authenticating |-> <<>>,
   reqLog |-> "none", exited |-> FALSE]

InitShutdown ==
  /\ NoSessions /\ NoMessages /\ NothingWritten /\ Fresh
  /\ MAX_CLIENTS_PER_WORKER = ClientsPerWorker(NumCpus)
  /\ peer = <<>> /\ coordinator = <<>> /\ tokens = <<>> /\ documents = <<>>
  /\ worker = RunningWorker

OtherVarsWorker ==
  <<now, connectedClients, activeConnections, messageQueue, queuedFlag,
    messageDeliveryTracker, messageBatch, writes, store, dropLog, flushLog,
    immediates, handles, nextMsgId, accepted, handed, evicted, pollLog,
    crashes, MAX_CLIENTS_PER_WORKER, peer, coordinator, tokens, documents, sendLog>>

\* server.on("connection")
SocketConnect ==
  /\ ~worker.exited
  /\ worker.sockets < MaxSockets
  /\ worker' = IF worker.isShuttingDown THEN worker
               ELSE [worker EXCEPT !.sockets = @ + 1]
  /\ UNCHANGED OtherVarsWorker

\* socket.on("close")
SocketClose ==
  /\ ~worker.exited
  /\ worker.sockets > 0
  /\ worker' = [worker EXCEPT !.sockets = @ - 1]
  /\ UNCHANGED OtherVarsWorker

\* the middleware in front of the routes: 503 while shutting down or at the
\* connection limit, else next(), which leads into authenticate
RequestArrives(username) ==
  /\ ~worker.exited
  /\ worker.sockets > 0
  /\ Len(worker.authenticating) < MaxInFlight
  /\ worker' =
       IF worker.isShuttingDown
         THEN [worker EXCEPT !.reqLog = "shutting down"]
       ELSE IF worker.sockets >= maxConnections(NumCpus)
         THEN [worker EXCEPT !.reqLog = "connection limit"]
       ELSE [worker EXCEPT !.reqLog = "next",
                           !.authenticating = Append(@, username)]
  /\ UNCHANGED OtherVarsWorker

\* await getUser resolves for one of the waiting requests; authenticate calls
\* next() and pollMessages runs
AuthenticateDone(i) ==
  /\ ~worker.exited
  /\ i \in DOMAIN worker.authenticating
  /\ worker' = [worker EXCEPT !.authenticating = RemoveAt(@, i)]
  /\ pollHandler(worker.authenticating[i])

\* process.on("message") with type "shutdown", or SIGTERM
ShutdownSignal ==
  /\ ~worker.exited
  /\ ~worker.isShuttingDown
  /\ worker' = [worker EXCEPT !.isShuttingDown = TRUE]
  /\ UNCHANGED OtherVarsWorker

\* process.exit, from the close callbacks or from the 10 s timer
WorkerTerminates ==
  /\ worker.isShuttingDown
  /\ ~worker.exited
  /\ worker' = [worker EXCEPT !.exited = TRUE, !.authenticating = <<>>, !.sockets = 0]
  /\ connectedClients' = <<>>
  /\ activeConnections' = 0
  /\ handles' = [c \in DOMAIN handles |->
                   [handles[c] EXCEPT !.state = IF @ = "held" THEN "gone" ELSE @,
                                      !.timer = FALSE]]
  /\ UNCHANGED <<now, messageQueue, queuedFlag, messageDeliveryTracker, messageBatch,
                 writes, store, dropLog, flushLog, immediates, nextMsgId, accepted,
                 handed, evicted, pollLog, crashes, MAX_CLIENTS_PER_WORKER, peer,
                 coordinator, tokens, documents, sendLog>>

NextShutdown ==
  \/ SocketConnect
  \/ SocketClose
  \/ \E u \in Users : RequestArrives(u)
  \/ \E i \in DOMAIN worker.authenticating :
       AuthenticateDone(i) /\ Len(handles') <= MaxPolls
  \/ ShutdownSignal
  \/ WorkerTerminates
  \/ ~worker.exited /\ \E c \in DOMAIN handles : TimerFire(c)
  \/ ~worker.exited /\ TickCount(now) < MaxTicks /\ Advance(SweepInterval)

SpecShutdown == InitShutdown /\ [][NextShutdown]_vars

\* C30: once the worker has the shutdown signal, no step adds a session to
\* its registry.
C30_NoRegistrationAfterShutdown ==
  [][worker.isShuttingDown
       => \A i \in DOMAIN connectedClients' :
            MapHas(connectedClients, connectedClients'[i].clientId)]_vars

-----------------------------------------------------------------------------
(* Graceful shutdown of the cluster (index.js).  The master handles SIGTERM,
   sends {type: "shutdown"} to every worker and arms its 30 s timer; a worker
   that handles the message arms its 10 s timer.  A timer callback runs when
   its time has come: the clock does not move past a due timer. *)

\* the worker's setTimeout(..., 10000)
WorkerDeadline == 10000

\* the master's setTimeout(..., 30000)
MasterDeadline == 30000

ShutdownTicks == 8

\* the end of the observed time span; a signal is observed when its deadline
\* lies within it
ClockLimit == ShutdownTicks * SweepInterval

\* sigterm: the master has handled SIGTERM; killAt: when its timer is due;
\* running: the master process is alive; shutdownSent: the workers a shutdown
\* message is on its way to; shutdownAt: when a worker handled it; exitCodes:
\* the codes the exit handler has logged
StartedMaster ==
  StartedCoordinator @@
  [sigterm |-> FALSE, killAt |-> 0, running |-> TRUE, shutdownSent |-> {},
   shutdownAt |-> <<>>, exitCodes |-> <<>>]

InitMaster ==
  /\ NoSessions /\ NoMessages /\ NothingWritten /\ Fresh
  /\ MAX_CLIENTS_PER_WORKER = ClientsPerWorker(NumCpus)
  /\ coordinator = StartedMaster
  /\ peer = <<>> /\ tokens = <<>> /\ documents = <<>> /\ worker = <<>>

OtherVarsMaster ==
  <<connectedClients, activeConnections, messageQueue, queuedFlag,
    messageDeliveryTracker, messageBatch, writes, store, dropLog, flushLog,
    immediates, handles, nextMsgId, accepted, handed, evicted, pollLog,
    crashes, MAX_CLIENTS_PER_WORKER, peer, tokens, documents, sendLog, worker>>

\* the workers that have handled the shutdown message and are still alive
Draining == DOMAIN coordinator.shutdownAt \cap coordinator.workers

\* master: process.on("SIGTERM")
MasterSigterm ==
  /\ coordinator.running
  /\ ~coordinator.sigterm
  /\ now + MasterDeadline <= ClockLimit
  /\ coordinator' = [coordinator EXCEPT !.sigterm = TRUE,
                                        !.shutdownSent = coordinator.workers,
                                        !.killAt = now + MasterDeadline]
  /\ UNCHANGED now
  /\ UNCHANGED OtherVarsMaster

\* worker: process.on("message") with type "shutdown"
WorkerShutdown(w) ==
  /\ w \in coordinator.shutdownSent \cap coordinator.workers
  /\ now + WorkerDeadline <= ClockLimit
  /\ coordinator' = [coordinator EXCEPT !.shutdownSent = @ \ {w},
                                        !.shutdownAt = (w :> now) @@ @]
  /\ UNCHANGED now
  /\ UNCHANGED OtherVarsMaster

\* the worker's timer never becomes due
ForcedExitDue_Never(w) == FALSE

\* the worker's 10 s timer is due
ForcedExitDue(w) == now >= coordinator.shutdownAt[w] + WorkerDeadline

\* the worker process ends with this exit code; the master's
\* cluster.on("exit") logs the code and forks, if the master is still there
WorkerLeaves(w, code) ==
  /\ coordinator' =
       IF coordinator.running
         THEN [coordinator EXCEPT
                 !.workers = (@ \ {w}) \cup {coordinator.nextWorkerId},
                 !.nextWorkerId = @ + 1,
                 !.exitCodes = (w :> code) @@ @]
         ELSE [coordinator EXCEPT !.workers = @ \ {w}]
  /\ crashes' = crashes + 1
  /\ UNCHANGED <<now, connectedClients, activeConnections, messageQueue, queuedFlag,
                 messageDeliveryTracker, messageBatch, writes, store, dropLog,
                 flushLog, immediates, handles, nextMsgId, accepted, handed,
                 evicted, pollLog, MAX_CLIENTS_PER_WORKER, peer, tokens, documents,
                 sendLog, worker>>

\* worker: process.exit(0) from the close callbacks
WorkerExitsClean(w) ==
  /\ w \in Draining
  /\ WorkerLeaves(w, 0)

\* worker: process.exit(1) from the timer
WorkerExitsForced(w) ==
  /\ w \in Draining
  /\ ForcedExitDue(w)
  /\ WorkerLeaves(w, 1)

\* master: process.exit(0) from the timer
MasterExitsForced ==
  /\ coordinator.running
  /\ coordinator.sigterm
  /\ now >= coordinator.killAt
  /\ coordinator' = [coordinator EXCEPT !.running = FALSE]
  /\ UNCHANGED now
  /\ UNCHANGED OtherVarsMaster

\* the timers that are armed: their due times
DueTimes ==
  {coordinator.shutdownAt[w] + WorkerDeadline : w \in Draining}
    \cup (IF coordinator.sigterm /\ coordinator.running THEN {coordinator.killAt} ELSE {})

ShutdownClock ==
  /\ now < ClockLimit
  /\ \A t \in DueTimes : now + SweepInterval <= t
  /\ now' = now + SweepInterval
  /\ UNCHANGED coordinator
  /\ UNCHANGED OtherVarsMaster

ForcedExits == \E w \in coordinator.workers : WorkerExitsForced(w)

ShutdownDelivery == \E w \in coordinator.workers : WorkerShutdown(w)

NextMaster ==
  \/ MasterSigterm
  \/ ShutdownDelivery
  \/ \E w \in coordinator.workers : WorkerExitsClean(w)
  \/ ForcedExits
  \/ MasterExitsForced
  \/ ShutdownClock

SpecMaster ==
  /\ InitMaster /\ [][NextMaster]_vars
  /\ WF_vars(ShutdownClock) /\ WF_vars(ForcedExits) /\ WF_vars(MasterExitsForced)

\* C31: a worker that has handled the shutdown signal terminates, no later
\* than 10 s after handling it, and the master that has handled SIGTERM
\* terminates, no later than 30 s after, whether or not all workers exit.
C31_ShutdownTerminates ==
  /\ [](\A w \in Draining : now <= coordinator.shutdownAt[w] + WorkerDeadline)
  /\ []((coordinator.sigterm /\ coordinator.running) => now <= coordinator.killAt)
  /\ \A w \in 1 .. NumWorkers :
       (w \in Draining) ~> (w \notin coordinator.workers)
  /\ coordinator.sigterm ~> ~coordinator.running

\* the master has exited on its timer, 30 s after SIGTERM, with workers still
\* alive, and a worker that had handled the signal is gone
C31_Witness ==
  /\ ~coordinator.running
  /\ now = coordinator.killAt
  /\ coordinator.workers # {}
  /\ \E w \in DOMAIN coordinator.shutdownAt : w \notin coordinator.workers

\* C37: once the master has handled SIGTERM it forks no worker.
C37_NoForkDuringShutdown ==
  [][coordinator.sigterm => coordinator'.nextWorkerId = coordinator.nextWorkerId]_vars

-----------------------------------------------------------------------------
(* Eviction of delivery records *)

\* C32: a sweep deletes exactly the delivery records whose timestamp lies more
\* than ten minutes back; a poll below capacity by a recipient of the message
\* at the head of the queue, when that message has no delivery record, is
\* handed the message, whether or not the recipient was handed it before; and
\* nobody holds two copies of a message whose record was never evicted.
C32_RepeatAfterEviction ==
  /\ [][Sweep => \A id \in DOMAIN messageDeliveryTracker :
                   id \notin DOMAIN messageDeliveryTracker'
                     <=> now - messageDeliveryTracker[id].timestamp > TrackerTtl]_vars
  /\ [][\A u \in Users :
          ( /\ pollMessages(u) /\ ~isAtCapacity
            /\ messageQueue # <<>>
            /\ u \in messageQueue[1].recipients
            /\ messageQueue[1].id \notin DOMAIN messageDeliveryTracker )
            => handed' = handed (+) SetToBag({<<messageQueue[1].id, u>>})]_vars
  /\ [](\A p \in BagToSet(handed) : CopiesIn(p, handed) > 1 => p[1] \in evicted)

\* alice was handed the queued message, its record was evicted more than ten
\* minutes later, and her next poll was handed the message a second time
C32_Witness ==
  /\ now > TrackerTtl
  /\ \E i \in DOMAIN messageQueue :
       /\ messageQueue[i].id \in evicted
       /\ Copies(messageQueue[i].id, "alice") = 2
  /\ pollLog.outcome = "message"

-----------------------------------------------------------------------------
(* Revocation through the middleware's blacklistToken *)

\* C33: a request that presents a token blacklistToken has been called with
\* is not accepted by authenticate.
C33_RevokedNeverAccepted ==
  [][\A t \in TokenPool :
       (Authenticate(t) /\ t.id \in tokens.revoked)
         => tokens'.authLog.outcome # "accepted"]_vars

\* C39: a request that presents an unexpired token blacklistToken has not been
\* called with is accepted by authenticate, whatever other tokens were revoked.
C39_RevocationIsPerToken ==
  [][\A t \in TokenPool :
       (Authenticate(t) /\ t.id \notin tokens.revoked /\ tokens.clock < t.exp)
         => tokens'.authLog.outcome = "accepted"]_vars

-----------------------------------------------------------------------------
(* The active count and the registry *)

\* C34: activeConnections is the number of entries of connectedClients and is
\* not negative.
C34_ActiveCountMatchesRegistry ==
  /\ activeConnections = Len(connectedClients)
  /\ activeConnections >= 0

-----------------------------------------------------------------------------
(* Admission over a longer run of polls, with clients that leave while a
   broadcast is between two slices *)

MaxCountPolls == 5

NextCount ==
  \/ \E u \in Users : pollMessages(u) /\ Len(handles') <= MaxCountPolls
  \/ nextMsgId <= MaxMsgs /\ sendMessage({"alice"})
  \/ RunImmediate
  \/ \E c \in DOMAIN handles : Disconnect(c)

SpecCount == Init /\ [][NextCount]_vars

\* the smallest n with n / MAX_CLIENTS_PER_WORKER >= 0.9
CapacityCeiling ==
  CHOOSE n \in 0 .. MAX_CLIENTS_PER_WORKER :
    /\ 10 * n >= 9 * MAX_CLIENTS_PER_WORKER
    /\ \A m \in 0 .. n - 1 : 10 * m < 9 * MAX_CLIENTS_PER_WORKER

\* C35: the registry never holds more sessions than the smallest n with
\* n / MAX_CLIENTS_PER_WORKER >= 0.9.
C35_RegistryBoundedByAdmission == Len(connectedClients) <= CapacityCeiling

-----------------------------------------------------------------------------
(* Where the messages handed to addToMessageBatch are *)

\* C36: while the worker has not crashed, no message is in two of the pending
\* batch, the writes in flight and the store; no message is twice in the
\* pending batch or in two writes in flight; and a message that is in none of
\* the three has been logged as dropped.
C36_BatcherConservation ==
  crashes = 0 =>
    /\ Ids(messageBatch) \cap InFlight = {}
    /\ Ids(messageBatch) \cap store = {}
    /\ InFlight \cap store = {}
    /\ Cardinality(Ids(messageBatch)) = Len(messageBatch)
    /\ \A i, j \in DOMAIN writes : i # j => Ids(writes[i]) \cap Ids(writes[j]) = {}
    /\ (accepted \ (Ids(messageBatch) \cup InFlight \cup store) # {} => dropLog # <<>>)

-----------------------------------------------------------------------------
(* The total after a worker has exited *)

\* C38: the master's total is the sum of the counts it holds for workers that
\* are alive; an exited worker's count is not part of it.
C38_TotalCountsLiveWorkersOnly ==
  coordinator.totalConnections =
    SumOver(coordinator.workerConnections,
            DOMAIN coordinator.workerConnections \cap coordinator.workers)

====
